---- MODULE Spec2Model ----
(***************************************************************************)
(* Market-feed system: a shared price table in POSIX shared memory guarded *)
(* by an advisory flock (orderbook.py, shared_memory_utils.py,             *)
(* strategy.py) and the '*'-framed TCP feed that populates it              *)
(* (gateway.py -> orderbook.py / strategy.py).                             *)
(*                                                                         *)
(* SpecTable    : OrderBook / Strategy / SharedPriceBook processes stepping *)
(*                through create-or-attach, update and read, one shared-   *)
(*                memory access or flock call per step.                    *)
(* SpecFeed     : the gateway's emission cycle, the byte stream to each     *)
(*                feed consumer and the consumers' receive loops, from the *)
(*                state in which the OrderBook has built its table.        *)
(* SpecFeedFair : SpecFeed with the consumers' loops weakly fair.           *)
(* SpecLoop, SpecRaw, SpecNews : the receive loops with their last step on *)
(*                record, and fed by a peer that sends more than the       *)
(*                gateway does.                                            *)
(* SpecGateway, SpecGatewayFair, SpecGatewayStop : the gateway's accept    *)
(*                thread, emission thread and shutdown, step by step.      *)
(* SpecOrders, SpecOrderFields, SpecSessions, SpecSessionsFair : the order *)
(*                manager's handler threads and their clients.             *)
(***************************************************************************)
EXTENDS Integers, Sequences, FiniteSets, TLC

\* ------------------------------------------------------------------ bounds
\* Prices are counted in hundredths; ticks and updates carry the prices
\* PriceStep, 2 * PriceStep, ..., MaxPrice * PriceStep.
MaxPrice == 2
PriceStep == 50
\* News sentiments are 0..MaxSent.
MaxSent == 1
\* Order quantities are 0..MaxQty.
MaxQty == 2
\* Bytes a connection holds between the gateway's sendall and the consumer's recv.
MaxWire == 8

\* ------------------------------------------------------- program constants
\* dtype ('symbol', 'S12'): a stored symbol keeps at most 12 bytes.
SYM_LEN == 12

\* ------------------------------------------------------------ value spaces
SymX == <<"X">>
SymY == <<"Y">>
\* Symbols an update or a read may be addressed to.
Symbols == {SymX, SymY}
\* Symbol lists an OrderBook may be started with (--symbols): with the one-symbol
\* list SymY is in no record of the table.
SymLists == {<<SymX>>, <<SymX, SymY>>}
ShmNames == {"shm1", "shm2"}
Prices == {k * PriceStep : k \in 1..MaxPrice}
Sentiments == 0..MaxSent

Books == {"ob1", "ob2"}
Strats == {"st"}
Clients == {"pb"}
Procs == Books \cup Strats \cup Clients
\* The processes that run a receive loop on the gateway's feed.
Consumers == {"ob1", "st"}

Min(a, b) == IF a < b THEN a ELSE b

\* ------------------------------------------------------------------- state
VARIABLES
  shm,       \* [ShmNames -> [exists, recs]]: the named shared-memory segments
  meta,      \* market_meta.json: [exists, shm_name, n, symbols]
  lockHeld,  \* flock state of each process's descriptor on market.lock
  pc,        \* each process's position
  self,      \* each process's object fields: shm_name, symbols, n, symbol, how
  op,        \* the table operation a process is inside: its arguments and locals
  returned,  \* the operation that has just returned or raised, and with what
  created,   \* history: how many times each segment name was created
  gwUp,      \* the gateway is listening (GatewayServer.running)
  gwSymbols, \* GatewayServer.symbols, in the order of self.prices
  gwPhase,   \* which half of its pass the broadcast loop is at: "prices" or "news"
  cstate,    \* each consumer's connection state
  link,      \* the gateway's end of each consumer's connection:
             \* "none", "pending" (not yet accepted), "open" or "closed"
  wire,      \* bytes sent on each consumer's connection and not yet received
  buffer,    \* each receive loop's buffer
  latest_sentiment,  \* Strategy.latest_sentiment: [set, val]
  sent,      \* history: ticks sent on the connection whose delimiter is still in flight
  garbled,   \* history: what the last receive step decoded, when that is not
             \* the ticks whose delimiters it received
  recvTail,  \* history: bytes received on the connection after the last delimiter
  applied,   \* history: per symbol, the price of the last sent tick the populator processed
  appliedNews,  \* history: the sentiment of the last sent news tick the Strategy processed
  socks,     \* gateway: each subscriber's socket: "idle", "pending" (connected, not
             \* yet accepted), "open", "broken" (the peer is gone: sendall raises)
             \* or "closed" (closed by the gateway)
  subscribers,  \* GatewayServer.client_sockets, in the order of the appends
  clients_lock, \* GatewayServer.clients_lock: "free", or the activity holding it
  acceptPc,  \* _accept_loop: "accept" or "append"
  accepted,  \* _accept_loop's client_sock
  emitPc,    \* _broadcast_loop and _broadcast: the position of the emission activity
  emitCtx,   \* which fan-out the emission activity is in: "price" or "news"
  partsLeft, \* payload_parts still to be broadcast in this cycle
  snapshot,  \* _broadcast: the part of list(self.client_sockets) still to be sent to
  dead,      \* _broadcast's dead list
  snap0,     \* history: the subscribers the pass took its snapshot of
  joined,    \* history: the subscribers appended since the pass began
  oconn,     \* order channel: the handler's connection, "open" or "closed"
  owire,     \* order channel: bytes sent by the client and not yet received
  obuffer,   \* handle_client's buffer
  order_id,  \* OrderManager.order_id
  osent,     \* history: what each message still in flight is (per delimiter)
  odue,      \* history: the valid orders whose delimiter the handler has received
  droppedBefore, \* history: the last receive step completed a malformed or empty
             \* message and, after it, a well-formed one
  missed,    \* history: the gateway has run an emission while the started consumer
             \* was not among its clients
  order,     \* process_order: the object json.loads returned
  printed,   \* process_order: what it printed for the order
  omUp,      \* the OrderManager process is running
  kpc,       \* each order client's position in _send_order / the test script
  kres,      \* how each client's last call ended: "none", "sent" or "failed"
  kconn,     \* each client's connection: "none", "open", "half" (closed by the
             \* client only) or "srv_closed" (closed by the order manager only)
  kwire,     \* bytes each client has sent that the handler has not received
  hpc,       \* the handler thread of each client's connection: its position
  hbuf,      \* handle_client's buffer, per handler thread
  htmp,      \* the value "self.order_id += 1" has loaded, per handler thread
  om_lock,   \* OrderManager.lock: "free" or the handler thread holding it
  assigned,  \* history: the ids in the order "oid = self.order_id" assigned them
  ncalls,    \* history: the calls made by the clients so far
  event      \* history: what each receive loop's last step was: "connected",
             \* "discarded" (a connect that threw a partial message away),
             \* "timeout", "news" (a receive step that completed a NEWS
             \* message) or "other"

tvars == <<meta, lockHeld, pc, self, op, returned, created>>
fvars == <<gwUp, gwSymbols, gwPhase, cstate, link, wire, buffer, latest_sentiment,
           sent, garbled, recvTail, applied, appliedNews>>
gvars == <<socks, subscribers, clients_lock, acceptPc, accepted, emitPc, emitCtx, partsLeft,
           snapshot, dead, snap0, joined>>
ovars == <<oconn, owire, obuffer, order_id, osent, odue>>
rvars == <<droppedBefore>>
mvars == <<missed>>
qvars == <<order, printed>>
evars == <<event>>
svars == <<omUp, kpc, kres, kconn, kwire, hpc, hbuf, htmp, om_lock, assigned, ncalls>>
xvars == <<gvars, ovars, rvars, mvars, qvars, evars, svars>>
vars == <<shm, tvars, fvars, xvars>>

\* A record of the structured array: 12 symbol bytes (NUL padding stripped) and
\* a float64 price stored as two words, each tagged with the value it belongs to.
ZeroRec == [symbol |-> <<>>, lo |-> 0, hi |-> 0]
NoSeg == [exists |-> FALSE, recs |-> <<>>]
NoMeta == [exists |-> FALSE, shm_name |-> "", n |-> 0, symbols |-> <<>>]
NoOp == [kind |-> "none", symbol |-> <<>>, price |-> 0, bad |-> FALSE, i |-> 0, lo |-> 0]
NoRet == [proc |-> "none", kind |-> "none", symbol |-> <<>>, res |-> "none",
          i |-> 0, lo |-> 0, hi |-> 0]

\* symbol.encode('utf-8')[:12]
SymBytes(symbol) == SubSeq(symbol, 1, Min(Len(symbol), SYM_LEN))

\* str.upper() on the characters the model uses.
UpperCh(c) == IF c = "x" THEN "X" ELSE IF c = "y" THEN "Y" ELSE c
Upper(s) == [k \in 1..Len(s) |-> UpperCh(s[k])]

\* np.ndarray((n,), dtype, buffer=shm.buf): the buffer must hold n records.
BufferTooSmall(recs, n) == n > Len(recs)

\* A scan that falls back to the first record when no symbol matches.
FindIndex_Fallback(recs, n, sym_b) ==
  LET hits == {i \in 1..Min(n, Len(recs)) : recs[i].symbol = sym_b}
  IN IF hits = {} THEN 1 ELSE CHOOSE i \in hits : \A j \in hits : i <= j

\* for i in range(n): if arr['symbol'][i].tobytes().rstrip(b'\x00') == sym_b
\* The index of the first match (1-based), 0 when no record matches.
FindIndex(recs, n, sym_b) ==
  LET hits == {i \in 1..Min(n, Len(recs)) : recs[i].symbol = sym_b}
  IN IF hits = {} THEN 0 ELSE CHOOSE i \in hits : \A j \in hits : i <= j

\* ------------------------------------------------------------------- flock
\* fcntl.flock(fd, LOCK_EX) returns once no other descriptor holds the lock;
\* fcntl.flock(fd, LOCK_SH) once no other descriptor holds it exclusively.
CanLock(p, mode) ==
  IF mode = "EX" THEN \A q \in Procs \ {p} : lockHeld[q] = "UN"
  ELSE \A q \in Procs \ {p} : lockHeld[q] # "EX"

\* The lock mode each call site asks for.
OB_LOCK_Shared == "SH"
OB_LOCK == "EX"
ST_LOCK == "SH"
SPB_UPDATE_LOCK == "EX"
SPB_READ_LOCK == "SH"

\* What each exit path leaves in the caller's flock state (flock(fd, LOCK_UN)).
SPB_UpdateExcUnlock_Kept(p) == lockHeld[p]
SPB_UpdateExcUnlock(p) == "UN"
SPB_UpdateUnlock(p) == "UN"
SPB_ReadUnlock(p) == "UN"
OB_LockExit(p) == "UN"
ST_LockExit(p) == "UN"

Segment(p) == shm[self[p].shm_name]

\* --------------------------------------------- steps of a table operation
\* The call with its arguments, up to the return of flock(fd, mode).
CallAndLock(p, kind, symbol, price, bad, mode) ==
  /\ pc[p] = "ready"
  /\ CanLock(p, mode)
  /\ lockHeld' = [lockHeld EXCEPT ![p] = mode]
  /\ op' = [op EXCEPT ![p] = [NoOp EXCEPT !.kind = kind, !.symbol = symbol,
                                          !.price = price, !.bad = bad]]
  /\ pc' = [pc EXCEPT ![p] = "scan"]
  /\ returned' = NoRet
  /\ UNCHANGED <<shm, meta, self, created>>

\* The operation's exit: the lock call of the exit path, then the return value.
Exit(p, res, i, lo, hi, unlocked) ==
  /\ lockHeld' = [lockHeld EXCEPT ![p] = unlocked]
  /\ returned' = [proc |-> p, kind |-> op[p].kind, symbol |-> op[p].symbol,
                  res |-> res, i |-> i, lo |-> lo, hi |-> hi]
  /\ op' = [op EXCEPT ![p] = NoOp]
  /\ pc' = [pc EXCEPT ![p] = "ready"]

\* The scan of an update up to the first word of arr['price'][i] = price.
\* -1: np.ndarray raises TypeError (buffer too small for n records) or the
\* assignment raises ValueError (price is no number); 0: no record matches.
ScanForStore(p, sym_b) ==
  LET recs == Segment(p).recs
      i == FindIndex(recs, self[p].n, sym_b)
  IN IF BufferTooSmall(recs, self[p].n) THEN -1
     ELSE IF i = 0 THEN 0
     ELSE IF op[p].bad THEN -1
     ELSE i

\* The scan of a read: -1 a TypeError, 0 no record matches, else the index.
ScanForLoad(p, sym_b) ==
  LET recs == Segment(p).recs
  IN IF BufferTooSmall(recs, self[p].n) THEN -1
     ELSE FindIndex(recs, self[p].n, sym_b)

\* arr['price'][i] = price, first word
StoreLo(p, i) ==
  /\ shm' = [shm EXCEPT ![self[p].shm_name].recs[i].lo = op[p].price]
  /\ op' = [op EXCEPT ![p].i = i]
  /\ pc' = [pc EXCEPT ![p] = "w_hi"]
  /\ returned' = NoRet
  /\ UNCHANGED <<meta, lockHeld, self, created>>

\* arr['price'][i] = price, second word
StoreHi(p) == [shm EXCEPT ![self[p].shm_name].recs[op[p].i].hi = op[p].price]

\* float(arr['price'][i]), first word
LoadLo(p, i) ==
  /\ op' = [op EXCEPT ![p].i = i, ![p].lo = Segment(p).recs[i].lo]
  /\ pc' = [pc EXCEPT ![p] = "r_hi"]
  /\ returned' = NoRet
  /\ UNCHANGED <<shm, meta, lockHeld, self, created>>

\* ------------------------------------------ OrderBook._create_or_attach_shm
\* SharedMemory(name, create=True, size) creates the zero-filled segment or
\* raises FileExistsError; the handler then attaches with create=False.
OB_TryCreate_NoExcl(name) == TRUE
OB_TryCreate(name) == ~shm[name].exists

OB_CreateOrAttach(p) ==
  /\ pc[p] = "new"
  /\ IF OB_TryCreate(self[p].shm_name)
     THEN /\ shm' = [shm EXCEPT ![self[p].shm_name] =
                       [exists |-> TRUE, recs |-> [k \in 1..self[p].n |-> ZeroRec]]]
          /\ created' = [created EXCEPT ![self[p].shm_name] = @ + 1]
          /\ self' = [self EXCEPT ![p].how = "created"]
          /\ pc' = [pc EXCEPT ![p] = "init_sym"]
          /\ op' = [op EXCEPT ![p] = [NoOp EXCEPT !.kind = "init", !.i = 1]]
     ELSE /\ self' = [self EXCEPT ![p].how = "attached"]
          /\ pc' = [pc EXCEPT ![p] = "ready"]
          /\ UNCHANGED <<shm, created, op>>
  /\ returned' = NoRet
  /\ UNCHANGED <<meta, lockHeld>>

\* buf['symbol'][i] = s.encode('utf-8')[:12]   (no lock is held)
OB_InitSymbol(p) ==
  /\ pc[p] = "init_sym"
  /\ shm' = [shm EXCEPT ![self[p].shm_name].recs[op[p].i].symbol =
                          SymBytes(self[p].symbols[op[p].i])]
  /\ pc' = [pc EXCEPT ![p] = "init_lo"]
  /\ returned' = NoRet
  /\ UNCHANGED <<meta, lockHeld, self, op, created>>

\* buf['price'][i] = 0.0, first word   (no lock is held)
OB_InitPriceLo(p) ==
  /\ pc[p] = "init_lo"
  /\ shm' = [shm EXCEPT ![self[p].shm_name].recs[op[p].i].lo = 0]
  /\ pc' = [pc EXCEPT ![p] = "init_hi"]
  /\ returned' = NoRet
  /\ UNCHANGED <<meta, lockHeld, self, op, created>>

\* buf['price'][i] = 0.0, second word; then the next symbol or the metadata
OB_InitPriceHi(p) ==
  /\ pc[p] = "init_hi"
  /\ shm' = [shm EXCEPT ![self[p].shm_name].recs[op[p].i].hi = 0]
  /\ IF op[p].i < self[p].n
     THEN /\ op' = [op EXCEPT ![p].i = @ + 1]
          /\ pc' = [pc EXCEPT ![p] = "init_sym"]
     ELSE /\ op' = [op EXCEPT ![p] = NoOp]
          /\ pc' = [pc EXCEPT ![p] = "write_meta"]
  /\ returned' = NoRet
  /\ UNCHANGED <<meta, lockHeld, self, created>>

\* with open(META_FILE, 'w') as f: json.dump(meta, f)
OB_WriteMeta(p) ==
  /\ pc[p] = "write_meta"
  /\ meta' = [exists |-> TRUE, shm_name |-> self[p].shm_name, n |-> self[p].n,
              symbols |-> self[p].symbols]
  /\ pc' = [pc EXCEPT ![p] = "ready"]
  /\ returned' = NoRet
  /\ UNCHANGED <<shm, lockHeld, self, op, created>>

\* ------------------------------------------------- OrderBook._update_price
\* run() calls _update_price(key, price) for every decoded price tick;
\* with file_lock(self.lock_fd): __enter__
OB_UpdateCall(p, symbol, price) == CallAndLock(p, "update", symbol, price, FALSE, OB_LOCK)

\* The scan; return False and an exception leave through __exit__.
OB_UpdateScan(p) ==
  /\ pc[p] = "scan"
  /\ LET i == ScanForStore(p, SymBytes(op[p].symbol))
     IN IF i > 0 THEN StoreLo(p, i)
        ELSE /\ Exit(p, IF i = 0 THEN "False" ELSE "Raised", 0, 0, 0, OB_LockExit(p))
             /\ UNCHANGED <<shm, meta, self, created>>

\* The second word of the price, return True through __exit__.
OB_UpdateStore(p) ==
  /\ pc[p] = "w_hi"
  /\ shm' = StoreHi(p)
  /\ Exit(p, "True", op[p].i, 0, 0, OB_LockExit(p))
  /\ UNCHANGED <<meta, self, created>>

\* ------------------------------------------------ SharedPriceBook.__init__
\* A constructor that attaches to the default segment without looking for the
\* meta file.
SPB_Init_Blind(p) ==
  /\ pc[p] = "new"
  /\ self' = [self EXCEPT ![p].shm_name = "shm1", ![p].symbols = meta.symbols,
                          ![p].n = meta.n, ![p].how = "attached"]
  /\ pc' = [pc EXCEPT ![p] = "ready"]
  /\ returned' = NoRet
  /\ UNCHANGED <<shm, meta, lockHeld, op, created>>

SPB_Init(p) ==
  /\ pc[p] = "new"
  /\ IF meta.exists
     THEN /\ self' = [self EXCEPT ![p].shm_name = meta.shm_name,
                                  ![p].symbols = meta.symbols,
                                  ![p].n = meta.n,
                                  ![p].how = "attached"]
          /\ pc' = [pc EXCEPT ![p] = "ready"]
     ELSE /\ pc' = [pc EXCEPT ![p] = "failed"]
          /\ UNCHANGED self
  /\ returned' = NoRet
  /\ UNCHANGED <<shm, meta, lockHeld, op, created>>

\* -------------------------------------------------- SharedPriceBook.update
\* fcntl.flock(self.lock_fd, fcntl.LOCK_EX)
SPB_UpdateCall(p, symbol, price, bad) ==
  CallAndLock(p, "update", symbol, price, bad, SPB_UPDATE_LOCK)

\* not found: flock(LOCK_UN), the function ends (None);
\* except Exception: flock(LOCK_UN); raise
SPB_UpdateScan(p) ==
  /\ pc[p] = "scan" /\ op[p].kind = "update"
  /\ LET i == ScanForStore(p, SymBytes(Upper(op[p].symbol)))
     IN IF i > 0 THEN StoreLo(p, i)
        ELSE /\ IF i = 0 THEN Exit(p, "None", 0, 0, 0, SPB_UpdateUnlock(p))
                ELSE Exit(p, "Raised", 0, 0, 0, SPB_UpdateExcUnlock(p))
             /\ UNCHANGED <<shm, meta, self, created>>

\* The second word of the price; flock(LOCK_UN); return True
SPB_UpdateStore(p) ==
  /\ pc[p] = "w_hi"
  /\ shm' = StoreHi(p)
  /\ Exit(p, "True", op[p].i, 0, 0, SPB_UpdateUnlock(p))
  /\ UNCHANGED <<meta, self, created>>

\* ---------------------------------------------------- SharedPriceBook.read
\* fcntl.flock(self.lock_fd, fcntl.LOCK_SH)
SPB_ReadCall(p, symbol) == CallAndLock(p, "read", symbol, 0, FALSE, SPB_READ_LOCK)

\* return None and an exception leave through finally.
SPB_ReadScan(p) ==
  /\ pc[p] = "scan" /\ op[p].kind = "read"
  /\ LET i == ScanForLoad(p, SymBytes(Upper(op[p].symbol)))
     IN IF i > 0 THEN LoadLo(p, i)
        ELSE /\ Exit(p, IF i = 0 THEN "None" ELSE "Raised", 0, 0, 0, SPB_ReadUnlock(p))
             /\ UNCHANGED <<shm, meta, self, created>>

\* The second word of the price; return float(...) through finally.
SPB_ReadLoad(p) ==
  /\ pc[p] = "r_hi"
  /\ Exit(p, "Price", op[p].i, op[p].lo, Segment(p).recs[op[p].i].hi, SPB_ReadUnlock(p))
  /\ UNCHANGED <<shm, meta, self, created>>

\* ------------------------------------------------------- Strategy.__init__
\* Without the meta file the process exits; otherwise it attaches to the
\* segment the meta file names, with the meta file's n.
ST_Init(p) ==
  /\ pc[p] = "new"
  /\ IF meta.exists
     THEN /\ self' = [self EXCEPT ![p].shm_name = meta.shm_name,
                                  ![p].symbols = meta.symbols,
                                  ![p].n = meta.n,
                                  ![p].how = "attached"]
          /\ pc' = [pc EXCEPT ![p] = "ready"]
     ELSE /\ pc' = [pc EXCEPT ![p] = "failed"]
          /\ UNCHANGED self
  /\ returned' = NoRet
  /\ UNCHANGED <<shm, meta, lockHeld, op, created>>

\* ---------------------------------------------- Strategy._get_latest_price
\* with file_lock(self.lock_fd): __enter__
ST_ReadCall(p) == CallAndLock(p, "read", self[p].symbol, 0, FALSE, ST_LOCK)

\* return None (after the with block) and an exception leave through __exit__.
ST_ReadScan(p) ==
  /\ pc[p] = "scan"
  /\ LET i == ScanForLoad(p, SymBytes(self[p].symbol))
     IN IF i > 0 THEN LoadLo(p, i)
        ELSE /\ Exit(p, IF i = 0 THEN "None" ELSE "Raised", 0, 0, 0, ST_LockExit(p))
             /\ UNCHANGED <<shm, meta, self, created>>

\* The second word of the price; return float(...) through __exit__.
ST_ReadLoad(p) ==
  /\ pc[p] = "r_hi"
  /\ Exit(p, "Price", op[p].i, op[p].lo, Segment(p).recs[op[p].i].hi, ST_LockExit(p))
  /\ UNCHANGED <<shm, meta, self, created>>

\* ===================================================================== feed
\* ------------------------------------------------------------ wire format
\* MESSAGE_DELIMITER = b'*'
Delim == "*"
Comma == ","
Space == " "
\* A byte that is not valid UTF-8 (chunk.decode raises on it).
InvalidByte == "#"
NewsKey == <<"N", "E", "W", "S">>
\* The symbol lists a gateway may be started with.
GwSymLists == {<<SymX>>, <<SymY>>}

DigitChars == <<"0", "1", "2", "3", "4", "5", "6", "7", "8", "9">>
IsDigit(ch) == \E d \in 1..10 : DigitChars[d] = ch
DigitVal(ch) == (CHOOSE d \in 1..10 : DigitChars[d] = ch) - 1

\* str(int): decimal digits, most significant first.
RECURSIVE Digits(_)
Digits(k) ==
  IF k < 10 THEN <<DigitChars[k + 1]>>
  ELSE Digits(k \div 10) \o <<DigitChars[(k % 10) + 1]>>

\* int() of a string of digits.
RECURSIVE Num(_)
Num(s) ==
  IF s = <<>> THEN 0
  ELSE 10 * Num(SubSeq(s, 1, Len(s) - 1)) + DigitVal(s[Len(s)])

AllDigits(s) == \A k \in 1..Len(s) : IsDigit(s[k])

\* bytes.find / str.find: the 1-based index of the first ch, 0 when absent.
Find(s, ch) ==
  IF \E k \in 1..Len(s) : s[k] = ch
  THEN CHOOSE k \in 1..Len(s) : s[k] = ch /\ \A j \in 1..(k - 1) : s[j] # ch
  ELSE 0

\* f"{price}" of a float rounded to 2 decimals (price in hundredths):
\* 50 -> "0.5", 100 -> "1.0", 153 -> "1.53", 1 -> "0.01".
FormatFloat(price) ==
  LET f == price % 100
  IN Digits(price \div 100) \o <<".">> \o
       (IF f % 10 = 0 THEN <<DigitChars[(f \div 10) + 1]>>
        ELSE <<DigitChars[(f \div 10) + 1], DigitChars[(f % 10) + 1]>>)

\* A float() that drops the fraction of its argument.
ParseFloat_Trunc(val) ==
  LET dot == Find(val, ".")
      ip == IF dot = 0 THEN val ELSE SubSeq(val, 1, dot - 1)
      fp == IF dot = 0 THEN <<>> ELSE SubSeq(val, dot + 1, Len(val))
  IN IF AllDigits(ip) /\ AllDigits(fp) /\ Len(ip) + Len(fp) >= 1 /\ Len(fp) <= 2
     THEN 100 * Num(ip)
     ELSE -1

\* A float() that answers 0.0 where float raises ValueError.
ParseFloat_Zero(val) ==
  LET dot == Find(val, ".")
      ip == IF dot = 0 THEN val ELSE SubSeq(val, 1, dot - 1)
      fp == IF dot = 0 THEN <<>> ELSE SubSeq(val, dot + 1, Len(val))
  IN IF AllDigits(ip) /\ AllDigits(fp) /\ Len(ip) + Len(fp) >= 1 /\ Len(fp) <= 2
     THEN 100 * Num(ip) + (IF Len(fp) = 0 THEN 0
                           ELSE IF Len(fp) = 1 THEN 10 * DigitVal(fp[1])
                           ELSE 10 * DigitVal(fp[1]) + DigitVal(fp[2]))
     ELSE 0

\* float(val) on decimal literals "d+", "d+.d*", ".d+", in hundredths; -1 stands
\* for ValueError.  Literals with more than two fraction digits are not
\* representable in hundredths and are produced by no sender of the model.
ParseFloat(val) ==
  LET dot == Find(val, ".")
      ip == IF dot = 0 THEN val ELSE SubSeq(val, 1, dot - 1)
      fp == IF dot = 0 THEN <<>> ELSE SubSeq(val, dot + 1, Len(val))
  IN IF AllDigits(ip) /\ AllDigits(fp) /\ Len(ip) + Len(fp) >= 1 /\ Len(fp) <= 2
     THEN 100 * Num(ip) + (IF Len(fp) = 0 THEN 0
                           ELSE IF Len(fp) = 1 THEN 10 * DigitVal(fp[1])
                           ELSE 10 * DigitVal(fp[1]) + DigitVal(fp[2]))
     ELSE -1

\* int(val) on a string of digits; -1 stands for ValueError.
ParseInt(val) == IF val # <<>> /\ AllDigits(val) THEN Num(val) ELSE -1

\* str.strip()
RECURSIVE Strip(_)
Strip(s) ==
  IF s = <<>> THEN s
  ELSE IF s[1] = Space THEN Strip(Tail(s))
  ELSE IF s[Len(s)] = Space THEN Strip(SubSeq(s, 1, Len(s) - 1))
  ELSE s

\* txt.split(',', 1)
Split(txt) ==
  LET idx == Find(txt, Comma)
  IN IF idx = 0 THEN <<txt>>
     ELSE <<SubSeq(txt, 1, idx - 1), SubSeq(txt, idx + 1, Len(txt))>>

\* chunk.decode('utf-8') succeeds
Decodable(chunk) == \A k \in 1..Len(chunk) : chunk[k] # InvalidByte

PriceTick(sym, price) == [kind |-> "price", symbol |-> sym, val |-> price]
NewsTick(sentiment) == [kind |-> "news", symbol |-> NewsKey, val |-> sentiment]
SkipMsg == [kind |-> "skip", symbol |-> <<>>, val |-> 0]

\* f"{sym},{price}".encode('utf-8') + MESSAGE_DELIMITER  and
\* f"NEWS,{sentiment}".encode('utf-8') + MESSAGE_DELIMITER
Encode(t) ==
  IF t.kind = "price"
  THEN t.symbol \o <<Comma>> \o FormatFloat(t.val) \o <<Delim>>
  ELSE NewsKey \o <<Comma>> \o Digits(t.val) \o <<Delim>>

\* ------------------------------------------------------------ receive loops
\* A receive step that keeps only the bytes of the last recv.
BufferAppend_Replace(buf, data) == data
\* A receive step that appends the bytes of the recv twice.
BufferAppend_Twice(buf, data) == buf \o data \o data
\* buffer += data
BufferAppend(buf, data) == buf \o data

\* A frame search that takes the end of the buffer for a delimiter.
FrameEnd_Eager(buf) ==
  IF Find(buf, Delim) = 0 /\ buf # <<>> THEN Len(buf) + 1 ELSE Find(buf, Delim)
\* idx = buffer.find(MESSAGE_DELIMITER)
FrameEnd(buf) == Find(buf, Delim)

\* A parse loop without the "if key == 'NEWS': continue" branch.
OB_Parse_NewsAsPrice(chunk) ==
  IF chunk = <<>> \/ ~Decodable(chunk) THEN SkipMsg
  ELSE LET parts == Split(chunk)
       IN IF Len(parts) # 2 THEN SkipMsg
          ELSE LET key == Upper(Strip(parts[1]))
                   val == Strip(parts[2])
               IN IF ParseFloat(val) = -1 THEN SkipMsg
                  ELSE PriceTick(key, ParseFloat(val))

\* What one chunk of OrderBook.run's parse loop amounts to: a NEWS message
\* (value not looked at), a price tick, or nothing.
OB_Parse(chunk) ==
  IF chunk = <<>> \/ ~Decodable(chunk) THEN SkipMsg
  ELSE LET parts == Split(chunk)
       IN IF Len(parts) # 2 THEN SkipMsg
          ELSE LET key == Upper(Strip(parts[1]))
                   val == Strip(parts[2])
               IN IF key = NewsKey THEN NewsTick(0)
                  ELSE IF ParseFloat(val) = -1 THEN SkipMsg
                  ELSE PriceTick(key, ParseFloat(val))

\* What one chunk of Strategy._listen_gateway_news's parse loop amounts to: a
\* NEWS message with its sentiment, another message (value not looked at), or
\* nothing.
ST_Parse(chunk) ==
  IF chunk = <<>> \/ ~Decodable(chunk) THEN SkipMsg
  ELSE LET parts == Split(chunk)
       IN IF Len(parts) # 2 THEN SkipMsg
          ELSE LET key == Upper(Strip(parts[1]))
                   val == Strip(parts[2])
               IN IF key = NewsKey
                  THEN IF ParseInt(val) = -1 THEN SkipMsg ELSE NewsTick(ParseInt(val))
                  ELSE PriceTick(key, 0)

\* _update_price run from its call to its return with no other process in
\* between: the records it leaves.
UpdatePrice(recs, n, sym_b, price) ==
  LET i == FindIndex(recs, n, sym_b)
  IN IF i = 0 THEN recs ELSE [recs EXCEPT ![i].lo = price, ![i].hi = price]

\* The while True loop of OrderBook.run over the buffer: the buffer it leaves,
\* the records it leaves, the messages it decoded in order, and whether
\* _update_price raised.
RECURSIVE OB_Drain(_, _, _, _)
OB_Drain(buf, recs, n, log) ==
  LET idx == FrameEnd(buf)
      chunk == SubSeq(buf, 1, idx - 1)
      rest == SubSeq(buf, idx + 1, Len(buf))
      m == OB_Parse(chunk)
  IN IF idx = 0 THEN [buffer |-> buf, recs |-> recs, log |-> log, raised |-> FALSE]
     ELSE IF m.kind = "skip" THEN OB_Drain(rest, recs, n, log)
     ELSE IF m.kind = "news" THEN OB_Drain(rest, recs, n, Append(log, m))
     ELSE IF BufferTooSmall(recs, n)
       THEN [buffer |-> rest, recs |-> recs, log |-> log, raised |-> TRUE]
     ELSE OB_Drain(rest, UpdatePrice(recs, n, SymBytes(m.symbol), m.val), n,
                   Append(log, m))

\* The while True loop of Strategy._listen_gateway_news over the buffer.
RECURSIVE ST_Drain(_, _, _)
ST_Drain(buf, sentiment, log) ==
  LET idx == FrameEnd(buf)
      chunk == SubSeq(buf, 1, idx - 1)
      rest == SubSeq(buf, idx + 1, Len(buf))
      m == ST_Parse(chunk)
  IN IF idx = 0 THEN [buffer |-> buf, sentiment |-> sentiment, log |-> log]
     ELSE IF m.kind = "skip" THEN ST_Drain(rest, sentiment, log)
     ELSE IF m.kind = "news"
       THEN ST_Drain(rest, [set |-> TRUE, val |-> m.val], Append(log, m))
     ELSE ST_Drain(rest, sentiment, Append(log, m))

\* ------------------------------------------------------------ history
\* What a consumer makes of a sent tick when it decodes it faithfully: the
\* OrderBook does not look at a sentiment, the Strategy not at a price.
View(c, t) ==
  IF c = "ob1" THEN (IF t.kind = "news" THEN NewsTick(0) ELSE t)
  ELSE (IF t.kind = "price" THEN PriceTick(t.symbol, 0) ELSE t)

\* A message the consumer has to drop leaves nothing to decode.
Views(c, ticks) ==
  LET kept == SelectSeq(ticks, LAMBDA t : t.kind # "skip")
  IN [k \in 1..Len(kept) |-> View(c, kept[k])]

\* The concatenated encodings of ticks.
RECURSIVE EncodeAll(_)
EncodeAll(ticks) ==
  IF ticks = <<>> THEN <<>> ELSE Encode(Head(ticks)) \o EncodeAll(Tail(ticks))

\* The value of the last tick of ticks that is of the kind and symbol, or dflt.
LastVal(ticks, kind, sym, dflt) ==
  LET hits == {k \in 1..Len(ticks) : ticks[k].kind = kind /\ ticks[k].symbol = sym}
  IN IF hits = {} THEN dflt
     ELSE ticks[CHOOSE k \in hits : \A j \in hits : j <= k].val

\* The bytes of s after its last delimiter.
RECURSIVE AfterLastDelim(_)
AfterLastDelim(s) ==
  IF Find(s, Delim) = 0 THEN s
  ELSE AfterLastDelim(SubSeq(s, Find(s, Delim) + 1, Len(s)))

CountDelim(s) == Cardinality({k \in 1..Len(s) : s[k] = Delim})

NoSentiment == [set |-> FALSE, val |-> 0]
NoGarble == [want |-> <<>>, got |-> <<>>]

\* ------------------------------------------------------------ gateway
\* self.client_sockets: the connections the accept loop has appended.
client_sockets == {c \in Consumers : link[c] = "open"}

\* sendall returns once the connection has taken the whole message.
HasRoom(bytes) == \A c \in client_sockets : Len(wire[c]) + Len(bytes) <= MaxWire

\* GatewayServer.start: bind, listen, running = True.
GW_Start ==
  /\ ~gwUp
  /\ gwUp' = TRUE
  /\ gwPhase' = "prices"
  /\ UNCHANGED <<shm, gwSymbols, cstate, link, wire, buffer, latest_sentiment, sent,
                 garbled, recvTail, applied, appliedNews>>

\* GatewayServer.stop (and process exit): every client socket and the listening
\* socket are closed; bytes already sent stay readable.
GW_Stop ==
  /\ gwUp
  /\ gwUp' = FALSE
  /\ gwPhase' = "prices"
  /\ link' = [c \in Consumers |-> IF link[c] = "none" THEN "none" ELSE "closed"]
  /\ UNCHANGED <<shm, gwSymbols, cstate, wire, buffer, latest_sentiment, sent,
                 garbled, recvTail, applied, appliedNews>>

\* _accept_loop: accept, then append to client_sockets under clients_lock.
GW_Accept(c) ==
  /\ gwUp
  /\ link[c] = "pending"
  /\ link' = [link EXCEPT ![c] = "open"]
  /\ UNCHANGED <<shm, gwUp, gwSymbols, gwPhase, cstate, wire, buffer, latest_sentiment,
                 sent, garbled, recvTail, applied, appliedNews>>

\* _broadcast(msg) for each of ticks in turn: c.sendall(msg) for every client.
Broadcast(ticks) ==
  /\ HasRoom(EncodeAll(ticks))
  /\ wire' = [c \in Consumers |->
                IF c \in client_sockets THEN wire[c] \o EncodeAll(ticks) ELSE wire[c]]
  /\ sent' = [c \in Consumers |->
                IF c \in client_sockets THEN sent[c] \o ticks ELSE sent[c]]

\* The first half of a pass of _broadcast_loop: every symbol gets a new price
\* (the random walk is abstracted to any price of Prices); with clients present
\* one price message per symbol is broadcast in the order of self.prices.
GW_Prices(prices) ==
  /\ gwUp
  /\ gwPhase = "prices"
  /\ IF client_sockets # {}
     THEN Broadcast([k \in 1..Len(gwSymbols) |-> PriceTick(gwSymbols[k], prices[k])])
     ELSE UNCHANGED <<wire, sent>>
  /\ gwPhase' = "news"
  /\ UNCHANGED <<shm, gwUp, gwSymbols, cstate, link, buffer, latest_sentiment,
                 garbled, recvTail, applied, appliedNews>>

\* The second half: when NEWS_INTERVAL has elapsed (due) a sentiment is
\* broadcast; then the loop sleeps until the next pass.
GW_News(due, sentiment) ==
  /\ gwUp
  /\ gwPhase = "news"
  /\ IF due THEN Broadcast(<<NewsTick(sentiment)>>) ELSE UNCHANGED <<wire, sent>>
  /\ gwPhase' = "prices"
  /\ UNCHANGED <<shm, gwUp, gwSymbols, cstate, link, buffer, latest_sentiment,
                 garbled, recvTail, applied, appliedNews>>

\* ------------------------------------------------------------ consumers
\* Where the loop goes once the backoff sleep is over.
AfterBackoff_Exit == "Terminated"
AfterBackoff == "Disconnected"

\* A connect that keeps the bytes the previous connection left in buffer.
Connect_KeepBuffer(c) ==
  /\ cstate[c] = "Disconnected"
  /\ gwUp
  /\ cstate' = [cstate EXCEPT ![c] = "Streaming"]
  /\ link' = [link EXCEPT ![c] = "pending"]
  /\ wire' = [wire EXCEPT ![c] = <<>>]
  /\ sent' = [sent EXCEPT ![c] = <<>>]
  /\ garbled' = [garbled EXCEPT ![c] = NoGarble]
  /\ recvTail' = [recvTail EXCEPT ![c] = <<>>]
  /\ UNCHANGED <<shm, gwUp, gwSymbols, gwPhase, buffer, latest_sentiment, applied,
                 appliedNews>>

\* sock.connect succeeds (the listening socket takes the connection);
\* settimeout; buffer = b''.
Connect(c) ==
  /\ cstate[c] = "Disconnected"
  /\ gwUp
  /\ cstate' = [cstate EXCEPT ![c] = "Streaming"]
  /\ link' = [link EXCEPT ![c] = "pending"]
  /\ wire' = [wire EXCEPT ![c] = <<>>]
  /\ buffer' = [buffer EXCEPT ![c] = <<>>]
  /\ sent' = [sent EXCEPT ![c] = <<>>]
  /\ garbled' = [garbled EXCEPT ![c] = NoGarble]
  /\ recvTail' = [recvTail EXCEPT ![c] = <<>>]
  /\ UNCHANGED <<shm, gwUp, gwSymbols, gwPhase, latest_sentiment, applied, appliedNews>>

\* The connection is over for the consumer: the except clause of the outer
\* try, then time.sleep(2.0).  The gateway drops the connection from its list
\* (its own handling of dead clients is not part of this specification).
Fail(c) ==
  /\ cstate' = [cstate EXCEPT ![c] = "Backoff"]
  /\ link' = [link EXCEPT ![c] = "none"]
  /\ wire' = [wire EXCEPT ![c] = <<>>]
  /\ sent' = [sent EXCEPT ![c] = <<>>]
  /\ garbled' = [garbled EXCEPT ![c] = NoGarble]
  /\ recvTail' = [recvTail EXCEPT ![c] = <<>>]

\* sock.connect raises ConnectionRefusedError.
ConnectFail(c) ==
  /\ cstate[c] = "Disconnected"
  /\ ~gwUp
  /\ Fail(c)
  /\ UNCHANGED <<shm, gwUp, gwSymbols, gwPhase, buffer, latest_sentiment, applied,
                 appliedNews>>

\* time.sleep(2.0) returns and the outer loop starts over.
Backoff(c) ==
  /\ cstate[c] = "Backoff"
  /\ cstate' = [cstate EXCEPT ![c] = AfterBackoff]
  /\ UNCHANGED <<shm, gwUp, gwSymbols, gwPhase, link, wire, buffer, latest_sentiment,
                 sent, garbled, recvTail, applied, appliedNews>>

\* data = sock.recv(4096) returns b'' : raise ConnectionError.
RecvClosed(c) ==
  /\ cstate[c] = "Streaming"
  /\ wire[c] = <<>>
  /\ link[c] = "closed"
  /\ Fail(c)
  /\ UNCHANGED <<shm, gwUp, gwSymbols, gwPhase, buffer, latest_sentiment, applied,
                 appliedNews>>

\* sock.recv raises an OSError other than socket.timeout (connection reset).
RecvError(c) ==
  /\ cstate[c] = "Streaming"
  /\ Fail(c)
  /\ UNCHANGED <<shm, gwUp, gwSymbols, gwPhase, buffer, latest_sentiment, applied,
                 appliedNews>>

\* A loop whose outer except clause also catches socket.timeout.
RecvTimeout_AsError(c) ==
  /\ cstate[c] = "Streaming"
  /\ link[c] # "closed"
  /\ Fail(c)
  /\ UNCHANGED <<shm, gwUp, gwSymbols, gwPhase, buffer, latest_sentiment, applied,
                 appliedNews>>

\* sock.recv raises socket.timeout: continue.  The bytes in flight, if any, have
\* not reached the consumer within the five seconds.
RecvTimeout(c) ==
  /\ cstate[c] = "Streaming"
  /\ link[c] # "closed"
  /\ UNCHANGED <<shm, fvars>>

\* The sent ticks whose delimiters are among the bytes of data.
Completed(c, data) == SubSeq(sent[c], 1, Min(CountDelim(data), Len(sent[c])))
Outstanding(c, data) ==
  SubSeq(sent[c], Min(CountDelim(data), Len(sent[c])) + 1, Len(sent[c]))
Garble(c, data, log) ==
  IF log = Views(c, Completed(c, data)) THEN NoGarble
  ELSE [want |-> Views(c, Completed(c, data)), got |-> log]

\* OrderBook.run: recv returns the first k bytes in flight; buffer += data; the
\* parse loop runs until the buffer holds no delimiter.
OB_Recv(c, k) ==
  /\ c = "ob1"
  /\ cstate[c] = "Streaming"
  /\ k \in 1..Len(wire[c])
  /\ \E data \in {SubSeq(wire[c], 1, k)} :
     \E r \in {OB_Drain(BufferAppend(buffer[c], data), Segment(c).recs, self[c].n, <<>>)} :
        /\ buffer' = [buffer EXCEPT ![c] = r.buffer]
        /\ shm' = [shm EXCEPT ![self[c].shm_name].recs = r.recs]
        /\ applied' = [s \in Symbols |->
                         LastVal(Completed(c, data), "price", s, applied[s])]
        /\ IF r.raised
           THEN Fail(c)
           ELSE /\ wire' = [wire EXCEPT ![c] = SubSeq(wire[c], k + 1, Len(wire[c]))]
                /\ sent' = [sent EXCEPT ![c] = Outstanding(c, data)]
                /\ garbled' = [garbled EXCEPT ![c] = Garble(c, data, r.log)]
                /\ recvTail' = [recvTail EXCEPT ![c] = AfterLastDelim(recvTail[c] \o data)]
                /\ UNCHANGED <<cstate, link>>
  /\ UNCHANGED <<gwUp, gwSymbols, gwPhase, latest_sentiment, appliedNews>>

\* Strategy._listen_gateway_news: the same loop, keeping the latest sentiment.
ST_Recv(c, k) ==
  /\ c = "st"
  /\ cstate[c] = "Streaming"
  /\ k \in 1..Len(wire[c])
  /\ \E data \in {SubSeq(wire[c], 1, k)} :
     \E r \in {ST_Drain(BufferAppend(buffer[c], data), latest_sentiment, <<>>)} :
        /\ buffer' = [buffer EXCEPT ![c] = r.buffer]
        /\ latest_sentiment' = r.sentiment
        /\ appliedNews' = LastVal(Completed(c, data), "news", NewsKey, appliedNews)
        /\ wire' = [wire EXCEPT ![c] = SubSeq(wire[c], k + 1, Len(wire[c]))]
        /\ sent' = [sent EXCEPT ![c] = Outstanding(c, data)]
        /\ garbled' = [garbled EXCEPT ![c] = Garble(c, data, r.log)]
        /\ recvTail' = [recvTail EXCEPT ![c] = AfterLastDelim(recvTail[c] \o data)]
  /\ UNCHANGED <<shm, gwUp, gwSymbols, gwPhase, cstate, link, applied>>

\* ========================================================== gateway fan-out
\* The two activities of one GatewayServer in detail: _accept_loop appending to
\* client_sockets under clients_lock, and _broadcast_loop calling _broadcast
\* once per price message (inside "with self.clients_lock") and once per news
\* message (outside it).
Subs == {"s1", "s2"}
\* Price messages per cycle (len(self.prices)).
MaxParts == 2

InSeq(s, seq) == \E k \in 1..Len(seq) : seq[k] = s
SeqSet(seq) == {seq[k] : k \in 1..Len(seq)}

\* A clean-up that closes the dead sockets and leaves them in the list.
RemoveDead_Keep(list, d) == list
\* for d in dead: if d in self.client_sockets: self.client_sockets.remove(d)
RemoveDead(list, d) == SelectSeq(list, LAMBDA c : ~InSeq(c, d))

\* threading.Lock.acquire returns only when no activity holds the lock: the
\* lock is not reentrant.
LockFree == clients_lock = "free"

GatewayIdle ==
  /\ socks = [s \in Subs |-> "idle"]
  /\ subscribers = <<>>
  /\ clients_lock = "free"
  /\ acceptPc = "accept"
  /\ accepted = "none"
  /\ emitPc = "top"
  /\ emitCtx = "price"
  /\ partsLeft = 0
  /\ snapshot = <<>>
  /\ dead = <<>>
  /\ snap0 = {}
  /\ joined = {}

\* self.running: set by start, cleared by the first statement of stop.
Running == emitPc \notin {"stop_lock", "stop_close", "stopped"}

\* A consumer connects: the connection waits in the listen backlog.
P_Connect(s) ==
  /\ emitPc # "stopped"
  /\ socks[s] \in {"idle", "closed"}
  /\ ~InSeq(s, subscribers)
  /\ socks' = [socks EXCEPT ![s] = "pending"]
  /\ UNCHANGED <<subscribers, clients_lock, acceptPc, accepted, emitPc, emitCtx, partsLeft,
                 snapshot, dead, snap0, joined>>

\* The consumer behind an accepted connection goes away.
P_Drop(s) ==
  /\ socks[s] = "open"
  /\ socks' = [socks EXCEPT ![s] = "broken"]
  /\ UNCHANGED <<subscribers, clients_lock, acceptPc, accepted, emitPc, emitCtx, partsLeft,
                 snapshot, dead, snap0, joined>>

\* client_sock, addr = self.server_sock.accept()
A_Accept(s) ==
  /\ acceptPc = "accept"
  /\ socks[s] = "pending"
  /\ socks' = [socks EXCEPT ![s] = "open"]
  /\ accepted' = s
  /\ acceptPc' = "append"
  /\ UNCHANGED <<subscribers, clients_lock, emitPc, emitCtx, partsLeft, snapshot, dead,
                 snap0, joined>>

\* with self.clients_lock: self.client_sockets.append(client_sock)
A_Append ==
  /\ acceptPc = "append"
  /\ LockFree
  /\ subscribers' = Append(subscribers, accepted)
  /\ joined' = joined \cup {accepted}
  /\ accepted' = "none"
  /\ acceptPc' = IF Running THEN "accept" ELSE "ended"
  /\ UNCHANGED <<socks, clients_lock, emitPc, emitCtx, partsLeft, snapshot, dead, snap0>>

\* self.server_sock.accept() raises: except Exception: ... break
A_Error ==
  /\ acceptPc = "accept"
  /\ acceptPc' = "ended"
  /\ UNCHANGED <<socks, subscribers, clients_lock, accepted, emitPc, emitCtx, partsLeft,
                 snapshot, dead, snap0, joined>>

\* The top of a cycle: the prices are updated; then "with self.clients_lock:"
\* is reached.
E_UpdatePrices ==
  /\ emitPc = "top"
  /\ emitPc' = "price_lock"
  /\ UNCHANGED <<socks, subscribers, clients_lock, acceptPc, accepted, emitCtx, partsLeft,
                 snapshot, dead, snap0, joined>>

\* with self.clients_lock: if self.client_sockets: build payload_parts
E_PriceLock ==
  /\ emitPc = "price_lock"
  /\ LockFree
  /\ clients_lock' = "emit"
  /\ emitCtx' = "price"
  /\ IF subscribers # <<>>
     THEN partsLeft' = MaxParts /\ emitPc' = "call"
     ELSE partsLeft' = 0 /\ emitPc' = "price_unlock"
  /\ UNCHANGED <<socks, subscribers, acceptPc, accepted, snapshot, dead, snap0, joined>>

\* _broadcast(msg): dead = []; list(self.client_sockets)
E_Call ==
  /\ emitPc = "call"
  /\ dead' = <<>>
  /\ snapshot' = subscribers
  /\ snap0' = SeqSet(subscribers)
  /\ joined' = {}
  /\ emitPc' = "send"
  /\ UNCHANGED <<socks, subscribers, clients_lock, acceptPc, accepted, emitCtx, partsLeft>>

\* c.sendall(msg) returns.
E_SendOk ==
  /\ emitPc = "send"
  /\ snapshot # <<>>
  /\ socks[Head(snapshot)] = "open"
  /\ snapshot' = Tail(snapshot)
  /\ UNCHANGED <<socks, subscribers, clients_lock, acceptPc, accepted, emitPc, emitCtx,
                 partsLeft, dead, snap0, joined>>

\* c.sendall(msg) raises: dead.append(c)
E_SendFail ==
  /\ emitPc = "send"
  /\ snapshot # <<>>
  /\ socks[Head(snapshot)] # "open"
  /\ dead' = Append(dead, Head(snapshot))
  /\ snapshot' = Tail(snapshot)
  /\ UNCHANGED <<socks, subscribers, clients_lock, acceptPc, accepted, emitPc, emitCtx,
                 partsLeft, snap0, joined>>

\* The for loop is over: "if dead:" goes on to "with self.clients_lock:", else
\* _broadcast returns.
E_SendDone ==
  /\ emitPc = "send"
  /\ snapshot = <<>>
  /\ emitPc' = IF dead # <<>> THEN "reap_lock" ELSE "ret"
  /\ UNCHANGED <<socks, subscribers, clients_lock, acceptPc, accepted, emitCtx, partsLeft,
                 snapshot, dead, snap0, joined>>

\* with self.clients_lock: (in _broadcast) the lock is acquired.
E_ReapLock ==
  /\ emitPc = "reap_lock"
  /\ LockFree
  /\ clients_lock' = "emit"
  /\ emitPc' = "reap"
  /\ UNCHANGED <<socks, subscribers, acceptPc, accepted, emitCtx, partsLeft, snapshot, dead,
                 snap0, joined>>

\* for d in dead: d.close(); remove d from client_sockets; the lock is
\* released and _broadcast returns.
E_Reap ==
  /\ emitPc = "reap"
  /\ socks' = [s \in Subs |-> IF InSeq(s, dead) THEN "closed" ELSE socks[s]]
  /\ subscribers' = RemoveDead(subscribers, dead)
  /\ clients_lock' = "free"
  /\ emitPc' = "ret"
  /\ UNCHANGED <<acceptPc, accepted, emitCtx, partsLeft, snapshot, dead, snap0, joined>>

\* _broadcast has returned: the next part of the price payload, the end of the
\* price block, or (after the news message) the sleep.
E_Return ==
  /\ emitPc = "ret"
  /\ IF emitCtx = "price"
     THEN /\ partsLeft' = partsLeft - 1
          /\ emitPc' = IF partsLeft > 1 THEN "call" ELSE "price_unlock"
     ELSE /\ partsLeft' = partsLeft
          /\ emitPc' = "sleep"
  /\ UNCHANGED <<socks, subscribers, clients_lock, acceptPc, accepted, emitCtx, snapshot,
                 dead, snap0, joined>>

\* The end of the "with self.clients_lock:" block of _broadcast_loop.
E_PriceUnlock ==
  /\ emitPc = "price_unlock"
  /\ clients_lock' = "free"
  /\ emitPc' = "news_check"
  /\ UNCHANGED <<socks, subscribers, acceptPc, accepted, emitCtx, partsLeft, snapshot, dead,
                 snap0, joined>>

\* if now - last_news_time >= NEWS_INTERVAL: self._broadcast(news_msg)
E_News(due) ==
  /\ emitPc = "news_check"
  /\ IF due THEN emitCtx' = "news" /\ emitPc' = "call"
     ELSE emitCtx' = emitCtx /\ emitPc' = "sleep"
  /\ UNCHANGED <<socks, subscribers, clients_lock, acceptPc, accepted, partsLeft, snapshot,
                 dead, snap0, joined>>

\* time.sleep(to_sleep) returns; while self.running
E_Sleep ==
  /\ emitPc = "sleep"
  /\ emitPc' = "top"
  /\ UNCHANGED <<socks, subscribers, clients_lock, acceptPc, accepted, emitCtx, partsLeft,
                 snapshot, dead, snap0, joined>>

\* KeyboardInterrupt in the main thread, wherever the emission activity is: a
\* "with self.clients_lock:" block it is inside releases the lock on the way
\* out; start's finally clause calls stop, which clears self.running.
S_Interrupt ==
  /\ Running
  /\ clients_lock' = IF clients_lock = "emit" THEN "free" ELSE clients_lock
  /\ emitPc' = "stop_lock"
  /\ UNCHANGED <<socks, subscribers, acceptPc, accepted, emitCtx, partsLeft, snapshot, dead,
                 snap0, joined>>

\* stop: with self.clients_lock: every socket of client_sockets is shut down
\* and closed; self.client_sockets.clear()
S_Clear ==
  /\ emitPc = "stop_lock"
  /\ LockFree
  /\ socks' = [s \in Subs |-> IF InSeq(s, subscribers) THEN "closed" ELSE socks[s]]
  /\ subscribers' = <<>>
  /\ emitPc' = "stop_close"
  /\ UNCHANGED <<clients_lock, acceptPc, accepted, emitCtx, partsLeft, snapshot, dead, snap0,
                 joined>>

\* stop: self.server_sock.close(); the connections still in the backlog are
\* reset.  stop returns.
S_Close ==
  /\ emitPc = "stop_close"
  /\ socks' = [s \in Subs |-> IF socks[s] = "pending" THEN "idle" ELSE socks[s]]
  /\ emitPc' = "stopped"
  /\ UNCHANGED <<subscribers, clients_lock, acceptPc, accepted, emitCtx, partsLeft, snapshot,
                 dead, snap0, joined>>

\* ============================================================ order channel
\* One connection to the OrderManager: the client's bytes in flight and
\* handle_client's receive loop with process_order.
\* Orders the handler is sent on one connection.
MaxOrders == 2

\* The messages a client sends, with what each one is: a JSON object, text
\* that is no JSON, bytes that are no UTF-8, and nothing at all.
OrderMsgs ==
  { [bytes |-> <<"{", "}">>, kind |-> "order"],
    [bytes |-> <<"{">>, kind |-> "badjson"],
    [bytes |-> <<InvalidByte>>, kind |-> "undecodable"],
    [bytes |-> <<>>, kind |-> "empty"] }

\* json.loads(msg) on the texts of the model: "object", "number", or "error"
\* for JSONDecodeError.
JsonLoads(msg) ==
  IF msg = <<"{", "}">> THEN "object"
  ELSE IF msg # <<>> /\ AllDigits(msg) /\ (Len(msg) = 1 \/ msg[1] # "0") THEN "number"
  ELSE "error"

\* raw_msg.decode('utf-8') raises UnicodeDecodeError: the call is outside
\* process_order's try, and handle_client catches connection errors only.
OM_DecodeRaises(raw_msg) == ~Decodable(raw_msg)

\* process_order(msg): the order_id it leaves.  json.loads raising is caught;
\* after the increment, order.get on a value that is no object raises
\* AttributeError, which is caught as well.
ProcessOrder(msg, id) == IF JsonLoads(msg) = "error" THEN id ELSE id + 1

\* while MESSAGE_DELIMITER in buffer: raw_msg, buffer = buffer.split(DELIM, 1)
\* The buffer and order_id the loop leaves, and whether it raised.
RECURSIVE OM_Drain(_, _)
OM_Drain(buf, id) ==
  LET idx == Find(buf, Delim)
      raw_msg == SubSeq(buf, 1, idx - 1)
      rest == SubSeq(buf, idx + 1, Len(buf))
  IN IF idx = 0 THEN [buffer |-> buf, order_id |-> id, raised |-> FALSE]
     ELSE IF raw_msg = <<>> THEN OM_Drain(rest, id)
     ELSE IF OM_DecodeRaises(raw_msg)
       THEN [buffer |-> rest, order_id |-> id, raised |-> TRUE]
     ELSE OM_Drain(rest, ProcessOrder(raw_msg, id))

CountKind(ms, kind) == Cardinality({k \in 1..Len(ms) : ms[k] = kind})

\* ------------------------------------------------------- order sessions
\* The OrderManager with one handler thread per connection, and its clients:
\* the Strategy, whose _send_order waits for a reply after sendall, and the
\* test client, which sends and closes.
OrderClients == {"st", "tc"}
\* The Strategy calls s.recv(4096) after sendall; the test client does not.
WaitsForReply(k) == k = "st"
\* json.dumps(order).encode('utf-8') + MESSAGE_DELIMITER
Payload == <<"{", "}", Delim>>

\* A lock that every acquire gets at once.
OM_LockFree_Always == TRUE
\* with self.lock: threading.Lock.acquire returns only while no thread holds it.
OM_LockFree == om_lock = "free"

SessionsIdle ==
  /\ omUp = TRUE
  /\ kpc = [k \in OrderClients |-> "idle"]
  /\ kres = [k \in OrderClients |-> "none"]
  /\ kconn = [k \in OrderClients |-> "none"]
  /\ kwire = [k \in OrderClients |-> <<>>]
  /\ hpc = [k \in OrderClients |-> "none"]
  /\ hbuf = [k \in OrderClients |-> <<>>]
  /\ htmp = [k \in OrderClients |-> 0]
  /\ om_lock = "free"
  /\ assigned = <<>>
  /\ ncalls = 0

\* run() calls _send_order (the test script starts): the order is built.
K_Call(k) ==
  /\ kpc[k] = "idle"
  /\ ncalls < MaxOrders
  /\ hpc[k] = "none"
  /\ kconn[k] = "none"
  /\ kpc' = [kpc EXCEPT ![k] = "connect"]
  /\ kres' = [kres EXCEPT ![k] = "none"]
  /\ ncalls' = ncalls + 1
  /\ UNCHANGED <<omUp, kconn, kwire, hpc, hbuf, htmp, om_lock, assigned, order_id>>

\* s.connect succeeds; OrderManager.start accepts the connection and starts
\* the handler thread with an empty buffer.
K_Connect(k) ==
  /\ kpc[k] = "connect"
  /\ omUp
  /\ kpc' = [kpc EXCEPT ![k] = "send"]
  /\ kconn' = [kconn EXCEPT ![k] = "open"]
  /\ kwire' = [kwire EXCEPT ![k] = <<>>]
  /\ hpc' = [hpc EXCEPT ![k] = "recv"]
  /\ hbuf' = [hbuf EXCEPT ![k] = <<>>]
  /\ UNCHANGED <<omUp, kres, htmp, om_lock, assigned, ncalls, order_id>>

\* s.connect raises ConnectionRefusedError: "Failed to send order".
K_ConnectFail(k) ==
  /\ kpc[k] = "connect"
  /\ ~omUp
  /\ kpc' = [kpc EXCEPT ![k] = "idle"]
  /\ kres' = [kres EXCEPT ![k] = "failed"]
  /\ UNCHANGED <<omUp, kconn, kwire, hpc, hbuf, htmp, om_lock, assigned, ncalls, order_id>>

\* s.sendall(payload); the Strategy goes on to s.recv(4096), the test client
\* to the end of its with block.
K_Send(k) ==
  /\ kpc[k] = "send"
  /\ kwire' = [kwire EXCEPT ![k] = IF kconn[k] = "open" THEN Payload ELSE <<>>]
  /\ kpc' = [kpc EXCEPT ![k] = IF WaitsForReply(k) THEN "wait_reply" ELSE "close"]
  /\ UNCHANGED <<omUp, kres, kconn, hpc, hbuf, htmp, om_lock, assigned, ncalls, order_id>>

\* data = s.recv(4096) returns: the order manager's end is closed (b'' or a
\* connection error, which is caught).  The handler sends nothing, so recv
\* never returns data.
K_RecvReply(k) ==
  /\ kpc[k] = "wait_reply"
  /\ kconn[k] = "srv_closed"
  /\ kpc' = [kpc EXCEPT ![k] = "close"]
  /\ UNCHANGED <<omUp, kres, kconn, kwire, hpc, hbuf, htmp, om_lock, assigned, ncalls,
                 order_id>>

\* s.close(); "Sent order"; the call returns.
K_Close(k) ==
  /\ kpc[k] = "close"
  /\ kconn' = [kconn EXCEPT ![k] = IF kconn[k] = "open" THEN "half" ELSE "none"]
  /\ kpc' = [kpc EXCEPT ![k] = "idle"]
  /\ kres' = [kres EXCEPT ![k] = "sent"]
  /\ UNCHANGED <<omUp, kwire, hpc, hbuf, htmp, om_lock, assigned, ncalls, order_id>>

\* Where handle_client goes after a message: "while MESSAGE_DELIMITER in buffer".
AfterMessage(buf) == IF Find(buf, Delim) # 0 THEN "split" ELSE "recv"

\* data = conn.recv(1024) returns the first n bytes in flight; buffer += data
H_Recv(k, n) ==
  /\ hpc[k] = "recv"
  /\ n \in 1..Len(kwire[k])
  /\ hbuf' = [hbuf EXCEPT ![k] = @ \o SubSeq(kwire[k], 1, n)]
  /\ kwire' = [kwire EXCEPT ![k] = SubSeq(@, n + 1, Len(@))]
  /\ hpc' = [hpc EXCEPT ![k] = AfterMessage(hbuf[k] \o SubSeq(kwire[k], 1, n))]
  /\ UNCHANGED <<omUp, kpc, kres, kconn, htmp, om_lock, assigned, ncalls, order_id>>

\* data = conn.recv(1024) returns b'' (the client has closed): break; finally:
\* conn.close(); the thread ends.
H_RecvEnd(k) ==
  /\ hpc[k] = "recv"
  /\ kwire[k] = <<>>
  /\ kconn[k] = "half"
  /\ hpc' = [hpc EXCEPT ![k] = "none"]
  /\ kconn' = [kconn EXCEPT ![k] = "none"]
  /\ UNCHANGED <<omUp, kpc, kres, kwire, hbuf, htmp, om_lock, assigned, ncalls, order_id>>

\* raw_msg, buffer = buffer.split(MESSAGE_DELIMITER, 1); an empty raw_msg is
\* skipped; raw_msg.decode raising ends the handler through finally; json.loads
\* raising is caught inside process_order; otherwise "with self.lock:" is next.
H_Split(k) ==
  /\ hpc[k] = "split"
  /\ LET idx == Find(hbuf[k], Delim)
         raw_msg == SubSeq(hbuf[k], 1, idx - 1)
         rest == SubSeq(hbuf[k], idx + 1, Len(hbuf[k]))
     IN /\ hbuf' = [hbuf EXCEPT ![k] = rest]
        /\ IF raw_msg = <<>> THEN hpc' = [hpc EXCEPT ![k] = AfterMessage(rest)] /\ UNCHANGED kconn
           ELSE IF OM_DecodeRaises(raw_msg)
             THEN /\ hpc' = [hpc EXCEPT ![k] = "none"]
                  /\ kconn' = [kconn EXCEPT ![k] = IF @ = "open" THEN "srv_closed" ELSE "none"]
           ELSE IF JsonLoads(raw_msg) = "error"
             THEN hpc' = [hpc EXCEPT ![k] = AfterMessage(rest)] /\ UNCHANGED kconn
           ELSE hpc' = [hpc EXCEPT ![k] = "lock"] /\ UNCHANGED kconn
  /\ UNCHANGED <<omUp, kpc, kres, kwire, htmp, om_lock, assigned, ncalls, order_id>>

\* with self.lock: __enter__
H_Lock(k) ==
  /\ hpc[k] = "lock"
  /\ OM_LockFree
  /\ om_lock' = k
  /\ hpc' = [hpc EXCEPT ![k] = "load"]
  /\ UNCHANGED <<omUp, kpc, kres, kconn, kwire, hbuf, htmp, assigned, ncalls, order_id>>

\* self.order_id += 1: the attribute is loaded
H_Load(k) ==
  /\ hpc[k] = "load"
  /\ htmp' = [htmp EXCEPT ![k] = order_id]
  /\ hpc' = [hpc EXCEPT ![k] = "store"]
  /\ UNCHANGED <<omUp, kpc, kres, kconn, kwire, hbuf, om_lock, assigned, ncalls, order_id>>

\* self.order_id += 1: the sum is stored
H_Store(k) ==
  /\ hpc[k] = "store"
  /\ order_id' = htmp[k] + 1
  /\ hpc' = [hpc EXCEPT ![k] = "oid"]
  /\ UNCHANGED <<omUp, kpc, kres, kconn, kwire, hbuf, htmp, om_lock, assigned, ncalls>>

\* oid = self.order_id; the with block ends; the fields are read and the
\* order is printed with its id.
H_Oid(k) ==
  /\ hpc[k] = "oid"
  /\ assigned' = Append(assigned, order_id)
  /\ om_lock' = "free"
  /\ hpc' = [hpc EXCEPT ![k] = AfterMessage(hbuf[k])]
  /\ UNCHANGED <<omUp, kpc, kres, kconn, kwire, hbuf, htmp, ncalls, order_id>>

\* The OrderManager process is stopped: its threads end and its sockets are
\* closed.
OM_Kill ==
  /\ omUp
  /\ omUp' = FALSE
  /\ hpc' = [k \in OrderClients |-> "none"]
  /\ om_lock' = "free"
  /\ kwire' = [k \in OrderClients |-> <<>>]
  /\ kconn' = [k \in OrderClients |->
                 IF kconn[k] = "open" THEN "srv_closed"
                 ELSE IF kconn[k] = "half" THEN "none" ELSE kconn[k]]
  /\ UNCHANGED <<kpc, kres, hbuf, htmp, assigned, ncalls, order_id>>

\* ------------------------------------------------ process_order's fields
\* What dict.get returns for a key that is absent or null: None, written -1
\* where the field holds a number, "None" where it holds a string and <<>>
\* where it holds a symbol.
None == 0 - 1
NoneStr == "None"
NoneSym == <<>>
\* A price field that holds a string float() raises on.
NotANumber == 0 - 2
NoOrder == [side |-> NoneStr, qty |-> None, size |-> None, symbol |-> NoneSym,
            price |-> None]
NoPrint == [done |-> FALSE, oid |-> 0, side_str |-> "", qty |-> None, symbol |-> NoneSym,
            price_val |-> 0]
\* The order objects a client may send: every field absent or present, the
\* side in either case or empty, the price a number or a string that is none.
Orders == [side : {NoneStr, "", "buy", "SELL"}, qty : {None} \cup 0..MaxQty,
           size : {None} \cup 0..MaxQty, symbol : {NoneSym, SymX},
           price : {None, NotANumber} \cup Prices]

Quantity_SizeFirst(o) == IF o.size # None THEN o.size ELSE o.qty

\* qty = order.get("qty") if order.get("qty") is not None else order.get("size")
Quantity(o) == IF o.qty # None THEN o.qty ELSE o.size

\* side.upper() if side else "UNKNOWN"
SideStr(side) ==
  IF side = NoneStr \/ side = "" THEN "UNKNOWN"
  ELSE IF side = "buy" THEN "BUY" ELSE side

\* float(price) if price is not None else 0.0, and 0.0 when float raises
PriceVal(price) == IF price \in Prices THEN price ELSE 0

FieldsIdle == order = NoOrder /\ printed = NoPrint

\* process_order once json.loads has returned the object: the id is taken
\* under the lock, the fields are read and the line is printed.
OM_ProcessOrder ==
  /\ ~printed.done
  /\ order_id' = order_id + 1
  /\ printed' = [done |-> TRUE, oid |-> order_id + 1, side_str |-> SideStr(order.side),
                 qty |-> Quantity(order), symbol |-> order.symbol,
                 price_val |-> PriceVal(order.price)]
  /\ UNCHANGED <<oconn, owire, obuffer, osent, odue, order>>

OrderChannelIdle ==
  /\ oconn = "open"
  /\ owire = <<>>
  /\ obuffer = <<>>
  /\ order_id = 0
  /\ osent = <<>>
  /\ odue = 0

HistoryIdle ==
  /\ droppedBefore = [c \in Consumers |-> FALSE]
  /\ missed = [c \in Consumers |-> FALSE]

EventIdle == event = [c \in Consumers |-> "other"]

OrdersIdle == OrderChannelIdle /\ HistoryIdle /\ FieldsIdle /\ EventIdle /\ SessionsIdle

\* The client's sendall(payload + MESSAGE_DELIMITER).
OC_Send(m) ==
  /\ oconn = "open"
  /\ Len(owire) + Len(m.bytes) + 1 <= MaxWire
  /\ m.kind = "order" => odue + CountKind(osent, "order") < MaxOrders
  /\ owire' = owire \o m.bytes \o <<Delim>>
  /\ osent' = Append(osent, m.kind)
  /\ UNCHANGED <<oconn, obuffer, order_id, odue>>

\* handle_client: conn.recv returns the first k bytes in flight; buffer += data;
\* the split loop runs; an exception that is no connection error leaves through
\* finally: conn.close().
OM_Recv(k) ==
  /\ oconn = "open"
  /\ k \in 1..Len(owire)
  /\ \E data \in {SubSeq(owire, 1, k)} :
     \E r \in {OM_Drain(obuffer \o data, order_id)} :
        /\ obuffer' = r.buffer
        /\ order_id' = r.order_id
        /\ owire' = SubSeq(owire, k + 1, Len(owire))
        /\ osent' = SubSeq(osent, CountDelim(data) + 1, Len(osent))
        /\ odue' = odue + CountKind(SubSeq(osent, 1, CountDelim(data)), "order")
        /\ oconn' = IF r.raised THEN "closed" ELSE "open"

\* ------------------------------------------------------------ SpecFeed
\* The feed at rest: no gateway, no consumer loop started.
FeedIdle ==
  /\ gwUp = FALSE
  /\ gwSymbols = <<>>
  /\ gwPhase = "prices"
  /\ cstate = [c \in Consumers |-> "Off"]
  /\ link = [c \in Consumers |-> "none"]
  /\ wire = [c \in Consumers |-> <<>>]
  /\ buffer = [c \in Consumers |-> <<>>]
  /\ latest_sentiment = NoSentiment
  /\ sent = [c \in Consumers |-> <<>>]
  /\ garbled = [c \in Consumers |-> NoGarble]
  /\ recvTail = [c \in Consumers |-> <<>>]
  /\ applied = [s \in Symbols |-> 0]
  /\ appliedNews = 0

\* ------------------------------------------------------------ SpecTable
\* Symbols a SharedPriceBook caller may pass (update and read upper-case them).
ClientSymbols == Symbols \cup {<<"x">>}

\* The prices an update of the symbol is called with: every price for SymX,
\* the first one for the others.
TablePrices(s) == IF s = SymX THEN Prices ELSE {PriceStep}

InitSelf(name, symbols, symbol) ==
  [shm_name |-> name, symbols |-> symbols, n |-> Len(symbols),
   symbol |-> symbol, how |-> "none"]

\* No segment and no meta file exist; the two OrderBook processes are given a
\* segment name and a symbol list each, the Strategy trades SymX.
TableInit ==
  /\ shm = [s \in ShmNames |-> NoSeg]
  /\ meta = NoMeta
  /\ lockHeld = [p \in Procs |-> "UN"]
  /\ pc = [p \in Procs |-> "new"]
  /\ \E n2 \in ShmNames, l2 \in SymLists :
       self = [p \in Procs |->
                 CASE p = "ob1" -> InitSelf("shm1", <<SymX, SymY>>, <<>>)
                   [] p = "ob2" -> InitSelf(n2, l2, <<>>)
                   [] p = "st" -> InitSelf("", <<>>, SymX)
                   [] OTHER -> InitSelf("", <<>>, <<>>)]
  /\ op = [p \in Procs |-> NoOp]
  /\ returned = NoRet
  /\ created = [s \in ShmNames |-> 0]
  /\ FeedIdle
  /\ GatewayIdle
  /\ OrdersIdle

\* A table step leaves the feed as it is.
TableNext ==
  \/ UNCHANGED <<fvars, xvars>> /\ \E p \in Books : OB_CreateOrAttach(p)
  \/ UNCHANGED <<fvars, xvars>> /\ \E p \in Books : OB_InitSymbol(p)
  \/ UNCHANGED <<fvars, xvars>> /\ \E p \in Books : OB_InitPriceLo(p)
  \/ UNCHANGED <<fvars, xvars>> /\ \E p \in Books : OB_InitPriceHi(p)
  \/ UNCHANGED <<fvars, xvars>> /\ \E p \in Books : OB_WriteMeta(p)
  \/ UNCHANGED <<fvars, xvars>> /\ \E p \in Books, s \in Symbols : \E v \in TablePrices(s) : OB_UpdateCall(p, s, v)
  \/ UNCHANGED <<fvars, xvars>> /\ \E p \in Books : OB_UpdateScan(p)
  \/ UNCHANGED <<fvars, xvars>> /\ \E p \in Books : OB_UpdateStore(p)
  \/ UNCHANGED <<fvars, xvars>> /\ \E p \in Clients : SPB_Init(p)
  \/ UNCHANGED <<fvars, xvars>> /\ \E p \in Clients, s \in ClientSymbols : \E v \in TablePrices(s) : SPB_UpdateCall(p, s, v, FALSE)
  \/ UNCHANGED <<fvars, xvars>> /\ \E p \in Clients, s \in ClientSymbols : SPB_UpdateCall(p, s, 0, TRUE)
  \/ UNCHANGED <<fvars, xvars>> /\ \E p \in Clients : SPB_UpdateScan(p)
  \/ UNCHANGED <<fvars, xvars>> /\ \E p \in Clients : SPB_UpdateStore(p)
  \/ UNCHANGED <<fvars, xvars>> /\ \E p \in Clients, s \in ClientSymbols : SPB_ReadCall(p, s)
  \/ UNCHANGED <<fvars, xvars>> /\ \E p \in Clients : SPB_ReadScan(p)
  \/ UNCHANGED <<fvars, xvars>> /\ \E p \in Clients : SPB_ReadLoad(p)
  \/ UNCHANGED <<fvars, xvars>> /\ \E p \in Strats : ST_Init(p)
  \/ UNCHANGED <<fvars, xvars>> /\ \E p \in Strats : ST_ReadCall(p)
  \/ UNCHANGED <<fvars, xvars>> /\ \E p \in Strats : ST_ReadScan(p)
  \/ UNCHANGED <<fvars, xvars>> /\ \E p \in Strats : ST_ReadLoad(p)

SpecTable == TableInit /\ [][TableNext]_vars

\* ------------------------------------------------------------ SpecTableAny
\* The symbol lists --symbols can produce: the parser upper-cases and drops
\* empty items, and keeps a symbol that is given twice.
CliLists == SymLists \cup {<<SymX, SymX>>}

\* As TableInit, with the first OrderBook started on any list of CliLists and
\* the second one on the same segment name.
TableAnyInit ==
  /\ shm = [s \in ShmNames |-> NoSeg]
  /\ meta = NoMeta
  /\ lockHeld = [p \in Procs |-> "UN"]
  /\ pc = [p \in Procs |-> "new"]
  /\ \E l1 \in CliLists :
       self = [p \in Procs |->
                 CASE p = "ob1" -> InitSelf("shm1", l1, <<>>)
                   [] p = "ob2" -> InitSelf("shm1", <<SymX>>, <<>>)
                   [] p = "st" -> InitSelf("", <<>>, SymX)
                   [] OTHER -> InitSelf("", <<>>, <<>>)]
  /\ op = [p \in Procs |-> NoOp]
  /\ returned = NoRet
  /\ created = [s \in ShmNames |-> 0]
  /\ FeedIdle
  /\ GatewayIdle
  /\ OrdersIdle

SpecTableAny == TableAnyInit /\ [][TableNext]_vars

\* ------------------------------------------------------------ SpecFeed (cont.)
\* The OrderBook has created and initialised its table and written the meta
\* file (__init__), the Strategy and a SharedPriceBook client have attached;
\* the gateway is not up yet and the receive loop under observation (the
\* OrderBook's or the Strategy's) is about to connect.
FeedInit ==
  /\ \E l \in SymLists :
       /\ shm = [s \in ShmNames |->
                  IF s = "shm1"
                  THEN [exists |-> TRUE,
                        recs |-> [i \in 1..Len(l) |->
                                    [symbol |-> SymBytes(l[i]), lo |-> 0, hi |-> 0]]]
                  ELSE NoSeg]
       /\ meta = [exists |-> TRUE, shm_name |-> "shm1", n |-> Len(l), symbols |-> l]
       /\ self = [p \in Procs |->
                   CASE p = "ob1" -> [InitSelf("shm1", l, <<>>) EXCEPT !.how = "created"]
                     [] p = "ob2" -> InitSelf("shm2", l, <<>>)
                     [] p = "st" -> [InitSelf("shm1", l, SymX) EXCEPT !.how = "attached"]
                     [] OTHER -> [InitSelf("shm1", l, <<>>) EXCEPT !.how = "attached"]]
  /\ lockHeld = [p \in Procs |-> "UN"]
  /\ pc = [p \in Procs |-> IF p = "ob2" THEN "new" ELSE "ready"]
  /\ op = [p \in Procs |-> NoOp]
  /\ returned = NoRet
  /\ created = [s \in ShmNames |-> IF s = "shm1" THEN 1 ELSE 0]
  /\ gwUp = FALSE
  /\ gwSymbols \in GwSymLists
  /\ gwPhase = "prices"
  /\ \E a \in Consumers :
       cstate = [c \in Consumers |-> IF c = a THEN "Disconnected" ELSE "Off"]
  /\ link = [c \in Consumers |-> "none"]
  /\ wire = [c \in Consumers |-> <<>>]
  /\ buffer = [c \in Consumers |-> <<>>]
  /\ latest_sentiment = NoSentiment
  /\ sent = [c \in Consumers |-> <<>>]
  /\ garbled = [c \in Consumers |-> NoGarble]
  /\ recvTail = [c \in Consumers |-> <<>>]
  /\ applied = [s \in Symbols |-> 0]
  /\ appliedNews = 0
  /\ GatewayIdle
  /\ OrdersIdle

\* A feed step leaves the table processes as they are.
frest == <<tvars, gvars, ovars, rvars, qvars, evars, svars>>

\* An emission passes by every started consumer that is not in client_sockets.
Missed ==
  missed' = [c \in Consumers |-> missed[c] \/ (cstate[c] # "Off" /\ c \notin client_sockets)]

FeedNext ==
  \/ UNCHANGED <<tvars, xvars>> /\ GW_Start
  \/ UNCHANGED <<tvars, xvars>> /\ GW_Stop
  \/ UNCHANGED <<tvars, xvars>> /\ \E c \in Consumers : GW_Accept(c)
  \/ UNCHANGED frest /\ Missed /\ \E prices \in [DOMAIN gwSymbols -> Prices] : GW_Prices(prices)
  \/ UNCHANGED <<tvars, xvars>> /\ GW_News(FALSE, 0)
  \/ UNCHANGED frest /\ Missed /\ \E sentiment \in Sentiments : GW_News(TRUE, sentiment)
  \/ UNCHANGED <<tvars, xvars>> /\ \E c \in Consumers : Connect(c)
  \/ UNCHANGED <<tvars, xvars>> /\ \E c \in Consumers : ConnectFail(c)
  \/ UNCHANGED <<tvars, xvars>> /\ \E c \in Consumers : Backoff(c)
  \/ UNCHANGED <<tvars, xvars>> /\ \E c \in Consumers : RecvClosed(c)
  \/ UNCHANGED <<tvars, xvars>> /\ \E c \in Consumers : RecvTimeout(c)
  \/ UNCHANGED <<tvars, xvars>> /\ \E c \in Consumers : RecvError(c)
  \/ UNCHANGED <<tvars, xvars>> /\ \E k \in 1..MaxWire : OB_Recv("ob1", k)
  \/ UNCHANGED <<tvars, xvars>> /\ \E k \in 1..MaxWire : ST_Recv("st", k)

SpecFeed == FeedInit /\ [][FeedNext]_vars

\* A receive loop that is not inside recv with bytes waiting: its next pass
\* connects, fails to connect, ends its sleep or sees the peer's close.
LoopStep(c) ==
  UNCHANGED <<tvars, xvars>> /\ (Connect(c) \/ ConnectFail(c) \/ Backoff(c) \/ RecvClosed(c))

\* recv has bytes to return; a step in which it returned some.
RecvReady(c) == cstate[c] = "Streaming" /\ wire[c] # <<>>
RecvTaken(c) ==
  /\ cstate[c] = "Streaming" /\ cstate'[c] = "Streaming"
  /\ Len(wire'[c]) < Len(wire[c])

\* Each receive loop keeps running: a pass that stays possible is taken, and a
\* recv that stays ready returns (weak fairness of the receive step, written
\* out).
SpecFeedFair ==
  /\ SpecFeed
  /\ \A c \in Consumers : WF_vars(LoopStep(c))
  /\ \A c \in Consumers : ([]<>(~RecvReady(c)) \/ []<><<RecvTaken(c)>>_vars)

\* ------------------------------------------------------------ SpecLoop
\* SpecFeed with the last step of each receive loop on record.
Did(c, what) == event' = [event EXCEPT ![c] = what]

lrest == <<tvars, gvars, ovars, rvars, mvars, qvars, svars>>

LoopNext ==
  \/ UNCHANGED <<tvars, xvars>> /\ GW_Start
  \/ UNCHANGED <<tvars, xvars>> /\ GW_Stop
  \/ UNCHANGED <<tvars, xvars>> /\ \E c \in Consumers : GW_Accept(c)
  \/ UNCHANGED frest /\ Missed /\ \E prices \in [DOMAIN gwSymbols -> Prices] : GW_Prices(prices)
  \/ UNCHANGED <<tvars, xvars>> /\ GW_News(FALSE, 0)
  \/ UNCHANGED frest /\ Missed /\ \E sentiment \in Sentiments : GW_News(TRUE, sentiment)
  \/ UNCHANGED lrest /\ \E c \in Consumers :
       Connect(c) /\ Did(c, IF buffer[c] # <<>> THEN "discarded" ELSE "connected")
  \/ UNCHANGED lrest /\ \E c \in Consumers : ConnectFail(c) /\ Did(c, "other")
  \/ UNCHANGED lrest /\ \E c \in Consumers : Backoff(c) /\ Did(c, "other")
  \/ UNCHANGED lrest /\ \E c \in Consumers : RecvClosed(c) /\ Did(c, "other")
  \/ UNCHANGED lrest /\ \E c \in Consumers : RecvTimeout(c) /\ Did(c, "timeout")
  \/ UNCHANGED lrest /\ \E c \in Consumers : RecvError(c) /\ Did(c, "other")
  \/ UNCHANGED lrest /\ \E k \in 1..MaxWire : OB_Recv("ob1", k) /\ Did("ob1", "other")
  \/ UNCHANGED lrest /\ \E k \in 1..MaxWire : ST_Recv("st", k) /\ Did("st", "other")

SpecLoop == FeedInit /\ [][LoopNext]_vars

\* ------------------------------------------------------------ SpecRaw
\* A receive loop fed by a peer that also sends what the gateway never sends.
\* What a consumer has to drop: an empty segment, text without a comma, bytes
\* that are no UTF-8, and a value that is no number where the consumer parses
\* it (the OrderBook a price, the Strategy a sentiment).
Malformed(c) ==
  { <<>>, <<"X">>, <<InvalidByte>>,
    IF c = "ob1" THEN SymX \o <<Comma, "a">> ELSE NewsKey \o <<Comma, "a">> }

\* The peer's messages with what each one is to the consumer: the ones to drop
\* and the ones the consumer acts on (the OrderBook on price ticks, the Strategy
\* on news).
RawMsgs(c) ==
  {[bytes |-> b \o <<Delim>>, tick |-> SkipMsg] : b \in Malformed(c)}
    \cup (IF c = "ob1"
          THEN {[bytes |-> Encode(PriceTick(SymX, v)), tick |-> PriceTick(SymX, v)] :
                  v \in Prices}
          ELSE {[bytes |-> Encode(NewsTick(n)), tick |-> NewsTick(n)] : n \in Sentiments})

\* The peer writes one message to the connection.
RawSend(c, m) ==
  /\ cstate[c] = "Streaming"
  /\ Len(wire[c]) + Len(m.bytes) <= MaxWire
  /\ wire' = [wire EXCEPT ![c] = @ \o m.bytes]
  /\ sent' = [sent EXCEPT ![c] = Append(@, m.tick)]
  /\ UNCHANGED <<shm, gwUp, gwSymbols, gwPhase, cstate, link, buffer, latest_sentiment,
                 garbled, recvTail, applied, appliedNews>>

\* Among the messages a receive step completes, a dropped one comes before a
\* well-formed one.
DropThenKeep(ticks) ==
  \E i, j \in 1..Len(ticks) : i < j /\ ticks[i].kind = "skip" /\ ticks[j].kind # "skip"

rrest == <<tvars, gvars, ovars, mvars, qvars, evars, svars>>

RawNext ==
  \/ UNCHANGED <<rrest, rvars>> /\ GW_Start
  \/ UNCHANGED <<rrest, rvars>> /\ \E c \in Consumers : Connect(c)
  \/ UNCHANGED <<rrest, rvars>> /\ \E c \in Consumers : \E m \in RawMsgs(c) : RawSend(c, m)
  \/ UNCHANGED rrest /\ \E k \in 1..MaxWire :
       /\ OB_Recv("ob1", k)
       /\ droppedBefore' = [droppedBefore EXCEPT !["ob1"] =
                              DropThenKeep(Completed("ob1", SubSeq(wire["ob1"], 1, k)))]
  \/ UNCHANGED rrest /\ \E k \in 1..MaxWire :
       /\ ST_Recv("st", k)
       /\ droppedBefore' = [droppedBefore EXCEPT !["st"] =
                              DropThenKeep(Completed("st", SubSeq(wire["st"], 1, k)))]

\* The table is built; the peer stands for the gateway.
RawInit == FeedInit /\ gwSymbols = <<SymX>>

SpecRaw == RawInit /\ [][RawNext]_vars

\* ------------------------------------------------------------ SpecNews
\* The populator fed NEWS messages of every kind of value and price messages,
\* over tables that hold a record whose symbol is NEWS.
NewsSymLists == {<<SymX>>, <<NewsKey>>, <<SymX, NewsKey>>}

\* The values a NEWS message may carry: a sentiment, a price, text, nothing.
NewsValues == {<<"1">>, <<".", "5">>, <<"a">>, <<>>}

NewsMsgs ==
  {[bytes |-> NewsKey \o <<Comma>> \o v \o <<Delim>>, tick |-> NewsTick(0)] :
     v \in NewsValues}
    \cup {[bytes |-> Encode(PriceTick(SymX, v)), tick |-> PriceTick(SymX, v)] : v \in Prices}

HasNews(ticks) == \E k \in 1..Len(ticks) : ticks[k].kind = "news"

NewsInit ==
  /\ \E l \in NewsSymLists :
       /\ shm = [s \in ShmNames |->
                  IF s = "shm1"
                  THEN [exists |-> TRUE,
                        recs |-> [i \in 1..Len(l) |->
                                    [symbol |-> SymBytes(l[i]), lo |-> 0, hi |-> 0]]]
                  ELSE NoSeg]
       /\ meta = [exists |-> TRUE, shm_name |-> "shm1", n |-> Len(l), symbols |-> l]
       /\ self = [p \in Procs |->
                   CASE p = "ob1" -> [InitSelf("shm1", l, <<>>) EXCEPT !.how = "created"]
                     [] p = "ob2" -> InitSelf("shm2", l, <<>>)
                     [] p = "st" -> [InitSelf("shm1", l, SymX) EXCEPT !.how = "attached"]
                     [] OTHER -> [InitSelf("shm1", l, <<>>) EXCEPT !.how = "attached"]]
  /\ lockHeld = [p \in Procs |-> "UN"]
  /\ pc = [p \in Procs |-> IF p = "ob2" THEN "new" ELSE "ready"]
  /\ op = [p \in Procs |-> NoOp]
  /\ returned = NoRet
  /\ created = [s \in ShmNames |-> IF s = "shm1" THEN 1 ELSE 0]
  /\ gwUp = FALSE
  /\ gwSymbols = <<SymX>>
  /\ gwPhase = "prices"
  /\ cstate = [c \in Consumers |-> IF c = "ob1" THEN "Disconnected" ELSE "Off"]
  /\ link = [c \in Consumers |-> "none"]
  /\ wire = [c \in Consumers |-> <<>>]
  /\ buffer = [c \in Consumers |-> <<>>]
  /\ latest_sentiment = NoSentiment
  /\ sent = [c \in Consumers |-> <<>>]
  /\ garbled = [c \in Consumers |-> NoGarble]
  /\ recvTail = [c \in Consumers |-> <<>>]
  /\ applied = [s \in Symbols |-> 0]
  /\ appliedNews = 0
  /\ GatewayIdle
  /\ OrdersIdle

NewsNext ==
  \/ UNCHANGED <<tvars, xvars>> /\ GW_Start
  \/ UNCHANGED <<tvars, xvars>> /\ Connect("ob1")
  \/ UNCHANGED <<tvars, xvars>> /\ \E m \in NewsMsgs : RawSend("ob1", m)
  \/ UNCHANGED lrest /\ \E k \in 1..MaxWire :
       /\ OB_Recv("ob1", k)
       /\ Did("ob1", IF HasNews(Completed("ob1", SubSeq(wire["ob1"], 1, k)))
                      THEN "news" ELSE "other")

SpecNews == NewsInit /\ [][NewsNext]_vars

\* ------------------------------------------------------------ SpecGateway
\* No table process has started.
TableIdle ==
  /\ shm = [s \in ShmNames |-> NoSeg]
  /\ meta = NoMeta
  /\ lockHeld = [p \in Procs |-> "UN"]
  /\ pc = [p \in Procs |-> "new"]
  /\ self = [p \in Procs |-> InitSelf("shm1", <<SymX>>, <<>>)]
  /\ op = [p \in Procs |-> NoOp]
  /\ returned = NoRet
  /\ created = [s \in ShmNames |-> 0]

\* The gateway has started (start: bind, listen, accept thread, emission
\* loop); no consumer has connected yet.
GatewayInit == TableIdle /\ FeedIdle /\ GatewayIdle /\ OrdersIdle

grest == <<shm, tvars, fvars, ovars, rvars, mvars, qvars, evars, svars>>

GatewayNext ==
  \/ UNCHANGED grest /\ \E s \in Subs : P_Connect(s)
  \/ UNCHANGED grest /\ \E s \in Subs : P_Drop(s)
  \/ UNCHANGED grest /\ \E s \in Subs : A_Accept(s)
  \/ UNCHANGED grest /\ A_Append
  \/ UNCHANGED grest /\ A_Error
  \/ UNCHANGED grest /\ E_UpdatePrices
  \/ UNCHANGED grest /\ E_PriceLock
  \/ UNCHANGED grest /\ E_Call
  \/ UNCHANGED grest /\ E_SendOk
  \/ UNCHANGED grest /\ E_SendFail
  \/ UNCHANGED grest /\ E_SendDone
  \/ UNCHANGED grest /\ E_ReapLock
  \/ UNCHANGED grest /\ E_Reap
  \/ UNCHANGED grest /\ E_Return
  \/ UNCHANGED grest /\ E_PriceUnlock
  \/ UNCHANGED grest /\ E_News(TRUE)
  \/ UNCHANGED grest /\ E_News(FALSE)
  \/ UNCHANGED grest /\ E_Sleep

SpecGateway == GatewayInit /\ [][GatewayNext]_vars

\* A step of the emission activity, and one of the acceptance activity.
EmitStep ==
  UNCHANGED grest /\
    (E_UpdatePrices \/ E_PriceLock \/ E_Call \/ E_SendOk \/ E_SendFail \/ E_SendDone
       \/ E_ReapLock \/ E_Reap \/ E_Return \/ E_PriceUnlock \/ E_News(TRUE)
       \/ E_News(FALSE) \/ E_Sleep)
AcceptStep == UNCHANGED grest /\ (A_Append \/ \E s \in Subs : A_Accept(s))

\* Both threads of the gateway keep being scheduled.
SpecGatewayFair == SpecGateway /\ WF_vars(EmitStep) /\ WF_vars(AcceptStep)

\* ------------------------------------------------------------ SpecGatewayStop
\* The gateway with its shutdown: the main thread is interrupted and runs stop
\* while the acceptance activity goes on.
GatewayStopNext ==
  \/ UNCHANGED grest /\ \E s \in Subs : P_Connect(s)
  \/ UNCHANGED grest /\ \E s \in Subs : P_Drop(s)
  \/ UNCHANGED grest /\ \E s \in Subs : A_Accept(s)
  \/ UNCHANGED grest /\ A_Append
  \/ UNCHANGED grest /\ A_Error
  \/ UNCHANGED grest /\ E_UpdatePrices
  \/ UNCHANGED grest /\ E_PriceLock
  \/ UNCHANGED grest /\ E_Call
  \/ UNCHANGED grest /\ E_SendOk
  \/ UNCHANGED grest /\ E_SendFail
  \/ UNCHANGED grest /\ E_SendDone
  \/ UNCHANGED grest /\ E_ReapLock
  \/ UNCHANGED grest /\ E_Reap
  \/ UNCHANGED grest /\ E_Return
  \/ UNCHANGED grest /\ E_PriceUnlock
  \/ UNCHANGED grest /\ E_News(TRUE)
  \/ UNCHANGED grest /\ E_News(FALSE)
  \/ UNCHANGED grest /\ E_Sleep
  \/ UNCHANGED grest /\ S_Interrupt
  \/ UNCHANGED grest /\ S_Clear
  \/ UNCHANGED grest /\ S_Close

SpecGatewayStop == GatewayInit /\ [][GatewayStopNext]_vars

\* ------------------------------------------------------------ SpecOrders
\* The OrderManager has accepted one connection and started its handler.
OrdersInit == TableIdle /\ FeedIdle /\ GatewayIdle /\ OrdersIdle

orest == <<shm, tvars, fvars, gvars, rvars, mvars, qvars, evars, svars>>

OrdersNext ==
  \/ UNCHANGED orest /\ \E m \in OrderMsgs : OC_Send(m)
  \/ UNCHANGED orest /\ \E k \in 1..MaxWire : OM_Recv(k)

SpecOrders == OrdersInit /\ [][OrdersNext]_vars

\* ------------------------------------------------------ SpecOrderFields
\* process_order applied to every order object of Orders.
OrderFieldsInit ==
  /\ TableIdle /\ FeedIdle /\ GatewayIdle /\ OrderChannelIdle /\ HistoryIdle
  /\ order \in Orders
  /\ printed = NoPrint
  /\ EventIdle
  /\ SessionsIdle

qrest == <<shm, tvars, fvars, gvars, rvars, mvars, evars, svars>>

OrderFieldsNext ==
  \/ UNCHANGED qrest /\ OM_ProcessOrder

SpecOrderFields == OrderFieldsInit /\ [][OrderFieldsNext]_vars

\* ------------------------------------------------------ SpecSessions
srest == <<shm, tvars, fvars, gvars, oconn, owire, obuffer, osent, odue, rvars, mvars,
           qvars, evars>>

SessionsInit == TableIdle /\ FeedIdle /\ GatewayIdle /\ OrdersIdle

SessionsNext ==
  \/ UNCHANGED srest /\ \E k \in OrderClients : K_Call(k)
  \/ UNCHANGED srest /\ \E k \in OrderClients : K_Connect(k)
  \/ UNCHANGED srest /\ \E k \in OrderClients : K_ConnectFail(k)
  \/ UNCHANGED srest /\ \E k \in OrderClients : K_Send(k)
  \/ UNCHANGED srest /\ \E k \in OrderClients : K_RecvReply(k)
  \/ UNCHANGED srest /\ \E k \in OrderClients : K_Close(k)
  \/ UNCHANGED srest /\ \E k \in OrderClients : \E n \in 1..Len(Payload) : H_Recv(k, n)
  \/ UNCHANGED srest /\ \E k \in OrderClients : H_RecvEnd(k)
  \/ UNCHANGED srest /\ \E k \in OrderClients : H_Split(k)
  \/ UNCHANGED srest /\ \E k \in OrderClients : H_Lock(k)
  \/ UNCHANGED srest /\ \E k \in OrderClients : H_Load(k)
  \/ UNCHANGED srest /\ \E k \in OrderClients : H_Store(k)
  \/ UNCHANGED srest /\ \E k \in OrderClients : H_Oid(k)
  \/ UNCHANGED srest /\ OM_Kill

SpecSessions == SessionsInit /\ [][SessionsNext]_vars

\* A step of a client's thread once its call is made, and one of a handler thread.
ClientStep(k) ==
  UNCHANGED srest /\
    (K_Connect(k) \/ K_ConnectFail(k) \/ K_Send(k) \/ K_RecvReply(k) \/ K_Close(k))
HandlerStep(k) ==
  UNCHANGED srest /\
    ((\E n \in 1..Len(Payload) : H_Recv(k, n)) \/ H_RecvEnd(k) \/ H_Split(k) \/ H_Lock(k)
       \/ H_Load(k) \/ H_Store(k) \/ H_Oid(k))

\* Every thread of the clients and of the order manager keeps being scheduled.
SpecSessionsFair ==
  /\ SpecSessions
  /\ \A k \in OrderClients : WF_vars(ClientStep(k)) /\ WF_vars(HandlerStep(k))

\* ------------------------------------------------------ claims on SpecTable
InUpdate(p) == op[p].kind = "update" /\ pc[p] \in {"scan", "w_hi"}
InRead(p) == op[p].kind = "read" /\ pc[p] \in {"scan", "r_hi"}
Range(f) == {f[k] : k \in DOMAIN f}

\* The symbol list the named segment was created with.
FrozenSymbols(name) ==
  UNION {Range(self[c].symbols) :
           c \in {b \in Books : self[b].how = "created" /\ self[b].shm_name = name}}

\* C3 (as claimed): every read that returns a price returns the two words of
\* one stored value (the initial zero or the price of one update), and while a
\* reader is between the two words of a record no write to that record is half
\* done.
C3_NoTornRead ==
  /\ (returned.kind = "read" /\ returned.res = "Price") =>
       (returned.lo = returned.hi /\ returned.lo \in {0} \cup Prices)
  /\ \A p \in Procs : (InRead(p) /\ pc[p] = "r_hi") =>
       Segment(p).recs[op[p].i].lo = Segment(p).recs[op[p].i].hi

\* C4: while one process is inside update or _update_price it holds the lock
\* exclusively and no other process is inside any table operation or holds the
\* lock in any mode, whatever symbols the operations are addressed to.
C4_LockExclusion ==
  \A p \in Procs : InUpdate(p) =>
    /\ lockHeld[p] = "EX"
    /\ \A q \in Procs \ {p} : ~InUpdate(q) /\ ~InRead(q) /\ lockHeld[q] = "UN"

\* Two readers hold the lock in shared mode at the same time.
C4_Witness ==
  /\ InRead("st") /\ InRead("pb")
  /\ lockHeld["st"] = "SH" /\ lockHeld["pb"] = "SH"

\* The symbol an update looks for, as the call site normalises it.
UpdateSymbol(p) == IF p \in Clients THEN Upper(op[p].symbol) ELSE op[p].symbol

C6_OneCreator ==
  \A a \in Books : \A b \in Books \ {a} :
    (self[a].shm_name = self[b].shm_name /\ pc[a] # "new" /\ pc[b] # "new") =>
      /\ created[self[a].shm_name] = 1
      /\ shm[self[a].shm_name].exists
      /\ {self[a].how, self[b].how} = {"created", "attached"}

\* Both OrderBook processes are past create-or-attach on the same name, the
\* second having attached while the first was still initialising.
C6_Witness ==
  /\ self["ob1"].shm_name = self["ob2"].shm_name
  /\ pc["ob1"] = "init_sym" /\ pc["ob2"] = "ready"

\* C9 (as claimed): an OrderBook that attached to an existing segment works on
\* the records its descriptor declares, so an update it makes for a symbol of
\* the descriptor's symbol list finds the record.
C9_AttachUsesDescriptor ==
  \A p \in Books :
    (/\ returned.proc = p /\ returned.kind = "update"
     /\ self[p].how = "attached"
     /\ meta.exists /\ meta.shm_name = self[p].shm_name
     /\ returned.symbol \in Range(meta.symbols))
    => returned.res = "True"

\* C10: a process that is not inside a table operation holds no lock, on
\* whichever path (found, not found, exception) it left its last operation.
C10_LockReleased ==
  /\ \A p \in Procs : (~InUpdate(p) /\ ~InRead(p)) => lockHeld[p] = "UN"
  /\ returned.proc \in Procs => lockHeld[returned.proc] = "UN"

\* SharedPriceBook.update has just raised (a price that is no number, for a
\* symbol the table holds) and its caller holds no lock.
C10_Witness ==
  /\ returned.proc = "pb" /\ returned.kind = "update" /\ returned.res = "Raised"
  /\ lockHeld["pb"] = "UN"

\* ------------------------------------------------------- claims on SpecFeed
\* SharedPriceBook.read(symbol) run from its call to its return with no other
\* process in between.
ReadPrice(p, symbol) ==
  LET i == FindIndex(Segment(p).recs, self[p].n, SymBytes(Upper(symbol)))
  IN IF i = 0 THEN [res |-> "None", lo |-> 0, hi |-> 0]
     ELSE [res |-> "Price", lo |-> Segment(p).recs[i].lo, hi |-> Segment(p).recs[i].hi]

\* C1: on every connection, whatever the sizes of the recv chunks, each receive
\* step decodes exactly the ticks whose delimiters it received, in the order
\* they were sent, and the bytes not yet decoded (receive buffer followed by the
\* bytes in flight) are exactly the encodings of the ticks not yet decoded: no
\* tick is lost, duplicated, merged with a neighbour or reordered.
C1_RoundTrip ==
  \A c \in Consumers :
    /\ garbled[c] = NoGarble
    /\ cstate[c] = "Streaming" => buffer[c] \o wire[c] = EncodeAll(sent[c])

\* The OrderBook's loop holds the head of a message split inside its price
\* after it has decoded an earlier price tick on the same connection, with
\* another delimiter still in flight.
C1_Witness ==
  /\ cstate["ob1"] = "Streaming"
  /\ Len(buffer["ob1"]) > Len(SymX) + 1
  /\ applied[SymX] \in Prices
  /\ Len(sent["ob1"]) = 2

\* C2: after every receive step the receive buffer is the bytes received after
\* the last delimiter and holds no delimiter, and the table and the sentiment
\* hold what the ticks whose delimiters were received put there: a message
\* whose delimiter is still to come is neither decoded nor applied.
C2_NoPartialEmission ==
  /\ \A c \in Consumers : cstate[c] = "Streaming" =>
        /\ buffer[c] = recvTail[c]
        /\ Find(buffer[c], Delim) = 0
  /\ \A i \in 1..Len(Segment("ob1").recs) :
        /\ Segment("ob1").recs[i].lo = applied[Segment("ob1").recs[i].symbol]
        /\ Segment("ob1").recs[i].hi = applied[Segment("ob1").recs[i].symbol]
  /\ latest_sentiment.val = appliedNews

\* The OrderBook's buffer holds the head of a first price tick for SymX that
\* would parse as a price already, and the table still holds the initial zero.
C2_Witness ==
  /\ cstate["ob1"] = "Streaming"
  /\ OB_Parse(buffer["ob1"]).kind = "price"
  /\ OB_Parse(buffer["ob1"]).symbol = SymX
  /\ sent["ob1"] # <<>>
  /\ Head(sent["ob1"]).val # OB_Parse(buffer["ob1"]).val
  /\ ReadPrice("pb", SymX) = [res |-> "Price", lo |-> 0, hi |-> 0]

\* A receive step of c that completes at least one tick and leaves the
\* connection up.
AppliesTick(c) ==
  /\ cstate[c] = "Streaming" /\ cstate'[c] = "Streaming"
  /\ Len(sent'[c]) < Len(sent[c])

\* C7: a started consumer is always in one of Disconnected, Streaming and
\* Backoff; if from some point on the gateway stays up the consumer is
\* Streaming again and again; and if from some point on its connection stays
\* up and ticks keep being sent on it, it keeps applying ticks.
C7_For(c) ==
  /\ [](cstate[c] \in {"Off", "Disconnected", "Streaming", "Backoff"})
  /\ (<>[]gwUp) => []<>(cstate[c] \in {"Off", "Streaming"})
  /\ (<>[](cstate[c] = "Streaming") /\ []<>(sent[c] # <<>>)) => []<><<AppliesTick(c)>>_vars

C7_ReconnectLiveness == C7_For("ob1") /\ C7_For("st")

\* The OrderBook is Streaming on a new connection the gateway has not accepted
\* yet, after it applied a tick on an earlier connection that was lost.
C7_Witness ==
  /\ cstate["ob1"] = "Streaming"
  /\ link["ob1"] = "pending"
  /\ applied[SymX] \in Prices

\* C8: a read of a symbol of the table returns the price of the last tick for
\* that symbol the populator has processed (the initial zero before the first
\* one), whatever else has been received since; a read of any other symbol
\* returns None.
C8_TickThenRead ==
  \A s \in Symbols :
    ReadPrice("pb", s) =
      IF s \in FrozenSymbols("shm1")
      THEN [res |-> "Price", lo |-> applied[s], hi |-> applied[s]]
      ELSE [res |-> "None", lo |-> 0, hi |-> 0]

\* read(SymX) returns the price of a processed tick while a later tick for SymX
\* with another price is still in flight.
C8_Witness ==
  /\ ReadPrice("pb", SymX).lo \in Prices
  /\ ReadPrice("pb", SymX).lo = applied[SymX]
  /\ \E k \in 1..Len(sent["ob1"]) :
       /\ sent["ob1"][k].symbol = SymX
       /\ sent["ob1"][k].val # applied[SymX]
\* ------------------------------------------------ more claims on SpecTable
\* A Strategy or SharedPriceBook whose constructor found no meta file.
Failed(p) == pc[p] = "failed"

\* C11: a Strategy or SharedPriceBook constructed while the meta file is absent
\* fails in that very step, and a failed consumer stays failed: it has attached
\* to no segment, is inside no table operation, holds no lock, and no later
\* step changes a record on its behalf.
C11_NoDescriptorIsFatal ==
  /\ [](\A p \in Strats \cup Clients :
          Failed(p) => (self[p].how = "none" /\ op[p] = NoOp /\ lockHeld[p] = "UN"))
  /\ [][\A p \in Strats \cup Clients :
          /\ (pc[p] = "new" /\ ~meta.exists /\ pc'[p] # "new") => Failed(p)'
          /\ Failed(p) => (Failed(p)' /\ self'[p] = self[p] /\ returned'.proc # p)]_vars

\* Both consumers failed while the segment existed without its meta file; the
\* table has been completed since and they are still out.
C11_Witness ==
  /\ Failed("pb") /\ Failed("st")
  /\ shm["shm1"].exists /\ meta.exists
  /\ \E i \in 1..Len(shm["shm1"].recs) : shm["shm1"].recs[i].lo \in Prices
\* ------------------------------------------------------- claims on SpecRaw
\* C12: whatever malformed or empty messages arrive between the well-formed
\* ones, every receive step decodes exactly the well-formed messages whose
\* delimiters it received, in order; the table and the sentiment hold what
\* those put there, so a dropped message changes neither; and a receive step
\* leaves the consumer in Streaming.
C12_MalformedDroppedAlone ==
  /\ [](\A c \in Consumers : garbled[c] = NoGarble)
  /\ [](/\ \A i \in 1..Len(Segment("ob1").recs) :
             /\ Segment("ob1").recs[i].lo = applied[Segment("ob1").recs[i].symbol]
             /\ Segment("ob1").recs[i].hi = applied[Segment("ob1").recs[i].symbol]
        /\ latest_sentiment.val = appliedNews)
  /\ [][\A c \in Consumers : cstate[c] = "Streaming" => cstate'[c] = "Streaming"]_vars

\* In one receive step the OrderBook dropped a message and applied the price
\* tick that followed it in the buffer.
C12_Witness ==
  /\ droppedBefore["ob1"]
  /\ cstate["ob1"] = "Streaming"
  /\ ReadPrice("pb", SymX).lo = applied[SymX]
  /\ applied[SymX] \in Prices
\* --------------------------------------------------- claims on SpecGateway
\* The emission activity is inside a fan-out pass.
InPass == emitPc \in {"send", "reap_lock", "reap"}
\* The emission activity waits for a lock it holds itself.
SelfBlocked == emitPc = "reap_lock" /\ clients_lock = "emit"

\* C13 (as claimed): with both activities scheduled, a fan-out pass in which a
\* send has failed is finished and the next emission cycle begins, and the
\* emission activity never waits for the subscriber lock while holding it.
C13_EmissionContinues ==
  /\ (InPass /\ dead # <<>>) ~> (emitPc = "top")
  /\ [](~SelfBlocked)
\* The step in which _broadcast returns from a pass.
PassCompletes == InPass /\ emitPc' = "ret"

\* C14: in the step that completes a fan-out pass, every subscriber whose send
\* failed in the pass is closed and out of client_sockets, and every subscriber
\* of the snapshot whose send succeeded, and every one appended since the pass
\* began, is in client_sockets.
C14_DeadRemovedOthersKept ==
  [][PassCompletes =>
       /\ \A s \in SeqSet(dead) : ~InSeq(s, subscribers') /\ socks'[s] = "closed"
       /\ \A s \in (snap0 \ SeqSet(dead)) \cup joined : InSeq(s, subscribers')]_vars

\* A news pass has just completed: the subscriber whose send failed is closed
\* and gone, the one accepted during the pass is in the list.
C14_Witness ==
  /\ emitPc = "ret" /\ emitCtx = "news"
  /\ dead # <<>> /\ joined # {}
  /\ \A s \in SeqSet(dead) : socks[s] = "closed" /\ ~InSeq(s, subscribers)
  /\ \A s \in joined : InSeq(s, subscribers)
\* C15 (as claimed): while a fan-out pass is sending, price or news, the
\* emission activity does not hold clients_lock, so an accepted subscriber
\* waiting to be appended is not kept out.
C15_NoLockWhileSending ==
  emitPc \in {"send", "reap_lock"} => clients_lock # "emit"
\* ------------------------------------------------- more claims on SpecFeed
\* C16: a consumer that is not connected, or connected and not yet among the
\* gateway's clients, has nothing in flight and (on a new connection) nothing
\* buffered, so what the gateway emits meanwhile never reaches it; no receive
\* step decodes more messages than ticks were completed by the delimiters it
\* received; and the table and the sentiment change only in a receive step on
\* a live connection that uses up at least one sent tick.
C16_AtMostOnce ==
  /\ [](\A c \in Consumers :
          /\ Len(garbled[c].got) <= Len(garbled[c].want)
          /\ (cstate[c] # "Streaming" \/ link[c] = "pending") =>
               (wire[c] = <<>> /\ sent[c] = <<>>)
          /\ (cstate[c] = "Streaming" /\ link[c] = "pending") => buffer[c] = <<>>)
  /\ [][(shm' # shm \/ latest_sentiment' # latest_sentiment) =>
          \E c \in Consumers :
            /\ cstate[c] = "Streaming" /\ wire[c] # <<>>
            /\ Len(sent'[c]) < Len(sent[c])]_vars

\* The gateway ran an emission while the OrderBook was away; the OrderBook is
\* back among the clients, has applied a tick and is in the middle of the next
\* message.
C16_Witness ==
  /\ missed["ob1"]
  /\ cstate["ob1"] = "Streaming" /\ link["ob1"] = "open"
  /\ applied[SymX] \in Prices
  /\ buffer["ob1"] # <<>>
\* --------------------------------------------------- claims on SpecTableAny
\* C17 (as claimed): once the creator of a segment has initialised it, every
\* symbol of its symbol list is the stored symbol of exactly one record, and
\* an update or read that found a record found the record of its symbol.
C17_EverySymbolOnce ==
  /\ \A p \in Books : (self[p].how = "created" /\ pc[p] \in {"write_meta", "ready", "scan", "w_hi"}) =>
       \A k \in 1..Len(self[p].symbols) :
         Cardinality({i \in 1..Len(Segment(p).recs) :
                        Segment(p).recs[i].symbol = SymBytes(self[p].symbols[k])}) = 1
  /\ returned.res \in {"True", "Price"} =>
       Segment(returned.proc).recs[returned.i].symbol = SymBytes(Upper(returned.symbol))
\* ------------------------------------------------ more claims on SpecTable
\* C18 (as claimed): once the meta file exists no step changes it, whichever
\* process runs create-or-attach and whatever segment name it was given.
C18_DescriptorWrittenOnce == [][meta.exists => meta' = meta]_vars

\* The layout p was started with differs from the one its segment was created
\* with: another record count or another symbol list.
Mismatched(p) ==
  \/ self[p].n # Len(Segment(p).recs)
  \/ \E c \in Books : /\ self[c].how = "created"
                      /\ self[c].shm_name = self[p].shm_name
                      /\ self[c].symbols # self[p].symbols

\* C19 (as claimed): an OrderBook that found its segment existing and was
\* started with another layout than the segment's does not get past the attach:
\* it is never ready for, or inside, a table operation.
C19_MismatchIsFatal ==
  \A p \in Books :
    (self[p].how = "attached" /\ Mismatched(p)) => pc[p] \notin {"ready", "scan", "w_hi"}
\* ---------------------------------------------------- claims on SpecOrders
\* C20 (as claimed): whatever malformed messages the client sends, the
\* handler's connection stays open and every valid order whose delimiter has
\* been received has been processed: order_id counts them all.
C20_BadOrderDroppedAlone ==
  /\ oconn = "open"
  /\ order_id = odue
\* ------------------------------------------------ claims on SpecOrderFields
\* C21: the order manager takes the quantity under either field name: an
\* order carrying only qty and an order carrying only size are processed to
\* the value of the field they carry, so to the same quantity when the values
\* are the same, and when both fields are present qty is used.
C21_QtyOrSize ==
  printed.done =>
    /\ (order.qty # None /\ order.size = None) => printed.qty = order.qty
    /\ (order.qty = None /\ order.size # None) => printed.qty = order.size
    /\ (order.qty # None /\ order.size # None) => printed.qty = order.qty

C21_Witness ==
  /\ printed.done
  /\ order.qty = 0 /\ order.size = MaxQty
  /\ printed.qty = 0

\* ------------------------------------------------------- claims on SpecLoop
\* C22: on every successful (re)connect the consumer starts with an empty
\* receive buffer: while no receive step has followed the connect the buffer is
\* empty, also when the previous connection left a partial message in it, and
\* while Streaming the buffer holds only bytes of the present connection (the
\* bytes received on it after its last delimiter).
C22_FreshBufferOnConnect ==
  \A c \in Consumers :
    /\ event[c] \in {"connected", "discarded"} =>
         cstate[c] = "Streaming" /\ buffer[c] = <<>>
    /\ cstate[c] = "Streaming" => buffer[c] = recvTail[c]

C22_Witness ==
  /\ event["ob1"] = "discarded"
  /\ cstate["ob1"] = "Streaming"
  /\ buffer["ob1"] = <<>>
  /\ wire["ob1"] # <<>>

\* C23: a read timeout while Streaming is not an error: the step leaves the
\* consumer in Streaming on the same connection with the same bytes in flight
\* and the same receive buffer, and neither the backoff nor a reconnect follows
\* from it.
C23_TimeoutIsNoError ==
  /\ [][\A c \in Consumers :
          (event[c] # "timeout" /\ event'[c] = "timeout") =>
            /\ cstate[c] = "Streaming" /\ cstate'[c] = "Streaming"
            /\ link'[c] = link[c] /\ wire'[c] = wire[c]
            /\ buffer'[c] = buffer[c]]_vars
  /\ [](\A c \in Consumers : event[c] = "timeout" => cstate[c] = "Streaming")

C23_Witness ==
  /\ event["ob1"] = "timeout"
  /\ cstate["ob1"] = "Streaming"
  /\ buffer["ob1"] # <<>>

\* ----------------------------------------------- more claims on SpecGateway
\* C24: an error in the acceptance loop ends only the acceptance activity: once
\* the acceptance loop has ended on an error, the emission activity still
\* comes back to the top of its cycle again and again.
C24_EmissionSurvivesAcceptError ==
  [](acceptPc = "ended" => []<>(emitPc = "top"))

\* ------------------------------------------------ claims on SpecGatewayStop
\* C28: after stop() has returned the subscriber collection is empty and every
\* socket the acceptance activity took from accept() is closed.
C28_StoppedMeansCleared ==
  emitPc = "stopped" =>
    /\ subscribers = <<>>
    /\ accepted = "none"
    /\ \A s \in Subs : socks[s] \notin {"open", "broken"}

\* ------------------------------------------------------- claims on SpecNews
\* C25: a NEWS message processed by the price-table populator never changes a
\* record of the price table, whatever its value and whatever symbols the table
\* holds: a receive step that completes no price message leaves every segment
\* as it was.
C25_NewsLeavesTable ==
  [][(/\ cstate["ob1"] = "Streaming"
      /\ Len(wire'["ob1"]) < Len(wire["ob1"])
      /\ \A k \in 1..(Len(sent["ob1"]) - Len(sent'["ob1"])) :
            sent["ob1"][k].kind # "price")
     => shm' = shm]_vars

C25_Witness ==
  /\ event["ob1"] = "news"
  /\ \E i \in 1..Len(shm["shm1"].recs) :
       shm["shm1"].recs[i].symbol = NewsKey /\ shm["shm1"].recs[i].lo = 0
  /\ \E i \in 1..Len(shm["shm1"].recs) :
       shm["shm1"].recs[i].symbol = SymX /\ shm["shm1"].recs[i].lo \in Prices

\* ------------------------------------------------ more claims on SpecTable
\* C26: initialisation of a newly created table never overwrites a price
\* written by a successful update: a store of the creator's initialisation
\* loop into a record that holds the price of a completed update leaves that
\* price in the record.
C26_InitKeepsUpdates ==
  [][\A p \in Books :
       (pc[p] \in {"init_lo", "init_hi"} /\ pc'[p] # pc[p]) =>
         LET r == shm[self[p].shm_name].recs[op[p].i]
             r2 == shm'[self[p].shm_name].recs[op[p].i]
         IN (r.lo = r.hi /\ r.lo \in Prices) => (r2.lo = r.lo /\ r2.hi = r.hi)]_vars

\* --------------------------------------------------- claims on SpecSessions
\* C27: after the strategy has sent an order, _send_order eventually returns:
\* the strategy does not wait for ever for a reply on the order connection.
C27_SendOrderReturns ==
  (kpc["st"] = "wait_reply") ~> (kpc["st"] = "idle")

\* C29: the ids the order manager assigns are unique and go up by one in the
\* order of assignment, under every interleaving of the handler threads: the
\* k-th id assigned is k.
C29_IdsUniqueIncreasing ==
  \A i \in 1..Len(assigned) : assigned[i] = i

C29_Witness ==
  /\ Len(assigned) = MaxOrders
  /\ \A k \in OrderClients : kres[k] # "failed"
  /\ \E k \in OrderClients : hpc[k] = "recv" /\ kconn[k] = "open"

====
